---- MODULE Spec2Model ----
(***************************************************************************)
(* Velocity: extraction normalizers, the AI co-author classifier and the   *)
(* metrics calculator of the CLI (src/cli/src), as state machines.         *)
(*                                                                         *)
(* Strings are TLA+ strings; a character is a string of length 1.          *)
(* null/undefined is the value Null.                                       *)
(***************************************************************************)
EXTENDS Integers, Sequences, FiniteSets, TLC

VARIABLES
    cls,        \* the last identifyAITool call: [name, email, tool]
    det,        \* the last detectAICoAuthors call: [message, coAuthors]
    lastIndex,  \* CO_AUTHOR_REGEX.lastIndex, the shared regex's scan position (0-based)
    prt,        \* a transformPR call: [raw, reviews, pr, returned]
    cmt,        \* a transformCommit call: [raw, commit, returned]
    met,        \* the metrics command: [files, docs, reports]
    ext,        \* an extract command: [pc, repos, host, settings, accessibleRepos, at, docs, files]
    flt,        \* extractPRs and extractCommits calls: [settings, rawPRs, rawCommits, prs, commits]
    fn,         \* a call of a helper of metrics.ts: [pc, args, result]
    gh,         \* a call of execGh: [pc, attempt, lastError, waits, log, result]
    ini         \* the configuration file and the last velocity init: [file, runs, last]

vars == <<cls, det, lastIndex, prt, cmt, met, ext, flt, fn, gh, ini>>

Null == "<null>"

(***************************************************************************)
(* Characters and JavaScript regular expressions (RegExp.prototype.test    *)
(* for the /i patterns of ai-detection.ts).                                *)
(***************************************************************************)
UpperChars == "ABCDEFGHIJKLMNOPQRSTUVWXYZ"
LowerChars == "abcdefghijklmnopqrstuvwxyz"
DigitChars == "0123456789"

CharAt(s, j) == IF j >= 1 /\ j <= Len(s) THEN SubSeq(s, j, j) ELSE ""

CharsOf(s) == {SubSeq(s, i, i) : i \in 1..Len(s)}

LowerMap ==
    [c \in CharsOf(UpperChars) |->
        LET i == CHOOSE x \in 1..Len(UpperChars) : SubSeq(UpperChars, x, x) = c
        IN  SubSeq(LowerChars, i, i)]

LowerChar(c) == IF c \in DOMAIN LowerMap THEN LowerMap[c] ELSE c

RECURSIVE toLowerCase(_)
toLowerCase(s) ==
    IF Len(s) = 0 THEN ""
    ELSE LowerChar(SubSeq(s, 1, 1)) \o toLowerCase(SubSeq(s, 2, Len(s)))

\* \s
IsSpace(c) == c \in {" ", "\t", "\n", "\r", "\f"}

\* \w
WordCharSet == CharsOf(UpperChars) \cup CharsOf(LowerChars) \cup CharsOf(DigitChars) \cup {"_"}
IsWord(c) == c \in WordCharSet

\* String.prototype.trim
RECURSIVE trimStart(_)
trimStart(s) ==
    IF Len(s) > 0 /\ IsSpace(SubSeq(s, 1, 1)) THEN trimStart(SubSeq(s, 2, Len(s))) ELSE s
RECURSIVE trimEnd(_)
trimEnd(s) ==
    IF Len(s) > 0 /\ IsSpace(SubSeq(s, Len(s), Len(s)))
    THEN trimEnd(SubSeq(s, 1, Len(s) - 1)) ELSE s
trim(s) == trimEnd(trimStart(s))

\* Regex elements. A regex is a sequence of elements.
Lit(s)    == [k |-> "lit", s |-> s,  alts |-> {}, ws |-> FALSE]   \* literal text
Alt(S)    == [k |-> "alt", s |-> "", alts |-> S,  ws |-> FALSE]   \* (a|b|c)
Ws0       == [k |-> "ws*", s |-> "", alts |-> {}, ws |-> TRUE]    \* \s*
Ws1       == [k |-> "ws+", s |-> "", alts |-> {}, ws |-> TRUE]    \* \s+
Opt(s, w) == [k |-> "opt", s |-> s,  alts |-> {}, ws |-> w]       \* [..]?  (w: class has \s)
WB        == [k |-> "wb",  s |-> "", alts |-> {}, ws |-> FALSE]   \* \b
BOL       == [k |-> "bol", s |-> "", alts |-> {}, ws |-> FALSE]   \* ^
EOL       == [k |-> "eol", s |-> "", alts |-> {}, ws |-> FALSE]   \* $

\* Text t (written in lower case) occurs in s at position j, ignoring case (the i flag).
LitAt(t, s, j) ==
    /\ j + Len(t) - 1 <= Len(s)
    /\ \A m \in 1..Len(t) : LowerChar(SubSeq(s, j + m - 1, j + m - 1)) = SubSeq(t, m, m)

RECURSIVE MatchFrom(_, _, _, _)
MatchFrom(p, i, s, j) ==
    IF i > Len(p) THEN TRUE
    ELSE LET e == p[i] IN
      CASE e.k = "lit" -> LitAt(e.s, s, j) /\ MatchFrom(p, i + 1, s, j + Len(e.s))
        [] e.k = "alt" -> \E a \in e.alts : LitAt(a, s, j) /\ MatchFrom(p, i + 1, s, j + Len(a))
        [] e.k = "ws*" -> \E n \in 0..(Len(s) + 1 - j) :
                              /\ \A m \in j..(j + n - 1) : IsSpace(CharAt(s, m))
                              /\ MatchFrom(p, i + 1, s, j + n)
        [] e.k = "ws+" -> \E n \in 1..(Len(s) + 1 - j) :
                              /\ \A m \in j..(j + n - 1) : IsSpace(CharAt(s, m))
                              /\ MatchFrom(p, i + 1, s, j + n)
        [] e.k = "opt" -> \/ MatchFrom(p, i + 1, s, j)
                          \/ /\ j <= Len(s)
                             /\ \/ CharAt(s, j) \in CharsOf(e.s)
                                \/ e.ws /\ IsSpace(CharAt(s, j))
                             /\ MatchFrom(p, i + 1, s, j + 1)
        [] e.k = "wb"  -> /\ IsWord(CharAt(s, j - 1)) # IsWord(CharAt(s, j))
                          /\ MatchFrom(p, i + 1, s, j)
        [] e.k = "bol" -> j = 1 /\ MatchFrom(p, i + 1, s, j)
        [] e.k = "eol" -> j = Len(s) + 1 /\ MatchFrom(p, i + 1, s, j)

\* pattern.test(s) for a regex without the g flag
RegExpTest(p, s) == \E j \in 1..(Len(s) + 1) : MatchFrom(p, 1, s, j)

(***************************************************************************)
(* ai-detection.ts: the pattern tables.                                    *)
(***************************************************************************)
EXCLUDED_BOTS == <<
    <<Lit("dependabot")>>,
    <<Lit("renovate")>>,
    <<Lit("maven-dependency-updater")>>,
    <<Lit("snyk")>>,
    <<Lit("greenkeeper")>>,
    <<Lit("github-actions")>>,
    <<Lit("vercel[bot]")>>,
    <<Lit("netlify")>>,
    <<Lit("circleci")>>,
    <<Lit("travis")>>,
    <<Lit("registry-file-exporter")>>,
    <<Lit("devex-bazel-targets-disabler")>>,
    <<Lit("devex-bca")>>,
    <<Lit("flynt-manager")>>,
    <<Lit("babel-app")>>,
    <<Lit("confidence-infra")>>,
    <<Lit("uncle-bot")>>,
    <<Lit("bca[bot]")>>,
    <<Lit("docs-bot")>>,
    <<Lit("nextjs-bot")>>,
    <<WB, Lit("infra[bot]")>>,
    <<WB, Lit("ci[bot]")>>,
    <<WB, Lit("cd[bot]")>>,
    <<WB, Lit("deploy")>>,
    <<WB, Lit("release")>>,
    <<WB, Lit("merge")>>,
    <<WB, Lit("sync")>> >>

\* A pattern { email?: RegExp; name?: RegExp }
OnEmail(re)      == [hasEmail |-> TRUE,  email |-> re,   hasName |-> FALSE, name |-> <<>>]
OnName(re)       == [hasEmail |-> FALSE, email |-> <<>>, hasName |-> TRUE,  name |-> re]
OnBoth(reE, reN) == [hasEmail |-> TRUE,  email |-> reE,  hasName |-> TRUE,  name |-> reN]

AI_PATTERNS == <<
    [tool |-> "copilot", patterns |-> <<
        OnEmail(<<Lit("copilot@github.com")>>),
        OnEmail(<<Lit("github-copilot")>>),
        OnName(<<Lit("github"), Ws0, Lit("copilot")>>),
        OnName(<<Lit("copilot-swe-agent")>>),
        OnEmail(<<Lit("copilot@users.noreply.github.com")>>) >>],
    [tool |-> "claude", patterns |-> <<
        OnEmail(<<Lit("@anthropic.com")>>),
        OnEmail(<<Lit("claude@")>>),
        OnName(<<BOL, Lit("claude"), EOL>>),
        OnName(<<Lit("claude"), Ws0, Alt({"sonnet", "opus", "haiku"})>>),
        OnName(<<Lit("anthropic")>>) >>],
    [tool |-> "cursor", patterns |-> <<
        OnEmail(<<Lit("@cursor."), Alt({"sh", "com"})>>),
        OnEmail(<<Lit("cursor@")>>),
        OnName(<<BOL, Lit("cursor"), EOL>>),
        OnName(<<Lit("cursor"), Ws0, Lit("ai")>>) >>],
    [tool |-> "codeium", patterns |-> <<
        OnEmail(<<Lit("@codeium.com")>>),
        OnEmail(<<Lit("codeium@")>>),
        OnName(<<BOL, Lit("codeium"), EOL>>),
        OnName(<<Lit("windsurf")>>) >>],
    [tool |-> "amazon-q", patterns |-> <<
        OnEmail(<<Lit("q@amazon.com")>>),
        OnEmail(<<Lit("amazon-q")>>),
        OnName(<<Lit("amazon"), Ws0, Lit("q")>>),
        OnBoth(<<Lit("@amazon.com")>>, <<BOL, Lit("q"), EOL>>) >>],
    [tool |-> "gemini", patterns |-> <<
        OnBoth(<<Lit("@google.com")>>, <<Lit("gemini")>>),
        OnEmail(<<Lit("gemini@")>>),
        OnName(<<BOL, Lit("gemini"), EOL>>),
        OnName(<<Lit("google"), Ws0, Lit("gemini")>>) >>] >>

genericAIPatterns == <<
    <<WB, Lit("ai"), Opt("-_", TRUE), Lit("assistant"), WB>>,
    <<WB, Lit("ai"), Opt("-_", TRUE), Lit("helper"), WB>>,
    <<WB, Lit("ai"), Opt("-_", TRUE), Lit("coder"), WB>>,
    <<WB, Lit("artificial"), Ws0, Lit("intelligence"), WB>>,
    <<WB, Lit("llm"), WB>>,
    <<WB, Lit("gpt"), WB>>,
    <<WB, Lit("chatgpt"), WB>>,
    <<WB, Lit("openai"), WB>>,
    <<WB, Lit("codegen"), WB>>,
    <<WB, Lit("auto"), Opt("-_", FALSE), Lit("code"), WB>> >>

(***************************************************************************)
(* ai-detection.ts: isExcludedBot, identifyAITool.                         *)
(***************************************************************************)
isExcludedBot(name, email) ==
    LET combined == name \o " " \o email
    IN  \E b \in 1..Len(EXCLUDED_BOTS) : RegExpTest(EXCLUDED_BOTS[b], combined)

\* The body of the inner loop: TRUE when the pattern makes the loop return its tool.
PatternBothOr(pattern, name, email) ==
    LET emailMatch == ~pattern.hasEmail \/ RegExpTest(pattern.email, email)
        nameMatch  == ~pattern.hasName \/ RegExpTest(pattern.name, name)
    IN  IF pattern.hasEmail /\ pattern.hasName THEN emailMatch \/ nameMatch
        ELSE IF pattern.hasEmail /\ emailMatch THEN TRUE
        ELSE pattern.hasName /\ nameMatch

PatternReturns(pattern, name, email) ==
    LET emailMatch == ~pattern.hasEmail \/ RegExpTest(pattern.email, email)
        nameMatch  == ~pattern.hasName \/ RegExpTest(pattern.name, name)
    IN  IF pattern.hasEmail /\ pattern.hasName THEN emailMatch /\ nameMatch
        ELSE IF pattern.hasEmail /\ emailMatch THEN TRUE
        ELSE pattern.hasName /\ nameMatch

\* The loop over AI_PATTERNS from entry t on.
RECURSIVE KnownTool(_, _, _)
KnownTool(t, name, email) ==
    IF t > Len(AI_PATTERNS) THEN Null
    ELSE IF \E q \in 1..Len(AI_PATTERNS[t].patterns) :
                PatternReturns(AI_PATTERNS[t].patterns[q], name, email)
         THEN AI_PATTERNS[t].tool
         ELSE KnownTool(t + 1, name, email)

GenericAI(name, email) ==
    \E g \in 1..Len(genericAIPatterns) :
        RegExpTest(genericAIPatterns[g], name) \/ RegExpTest(genericAIPatterns[g], email)

\* identifyAITool without the bot-exclusion gate of lines 370-373.
IdentifyUngated(name, email) ==
    LET tool == KnownTool(1, name, email)
    IN  IF tool # Null THEN tool
        ELSE IF GenericAI(name, email) THEN "other" ELSE Null

identifyAITool(name, email) ==
    IF isExcludedBot(name, email) THEN Null
    ELSE LET tool == KnownTool(1, name, email)
         IN  IF tool # Null THEN tool
             ELSE IF GenericAI(name, email) THEN "other" ELSE Null

(***************************************************************************)
(* ai-detection.ts: CO_AUTHOR_REGEX and detectAICoAuthors.                 *)
(*   /^co-authored-by:\s*(.+?)\s*<([^>]+)>\s*$/gim                         *)
(* Positions are 1-based here; lastIndex is JavaScript's 0-based index.    *)
(***************************************************************************)
IsLineTerminator(c) == c \in {"\n", "\r"}

\* ^ and $ under the m flag
LineStartAt(s, j) == j = 1 \/ IsLineTerminator(CharAt(s, j - 1))
LineEndAt(s, j)   == j = Len(s) + 1 \/ IsLineTerminator(CharAt(s, j))

\* The number of consecutive \s characters of s from position j on.
RECURSIVE SpaceRun(_, _)
SpaceRun(s, j) == IF j <= Len(s) /\ IsSpace(CharAt(s, j)) THEN 1 + SpaceRun(s, j + 1) ELSE 0

\* The position of the first ">" of s at or after position j; 0 when there is none.
RECURSIVE FirstGt(_, _)
FirstGt(s, j) ==
    IF j > Len(s) THEN 0 ELSE IF CharAt(s, j) = ">" THEN j ELSE FirstGt(s, j + 1)

CoAuthorPrefix == "co-authored-by:"

NoMatch == [ok |-> FALSE, name |-> "", email |-> "", end |-> 0]

\* With the regex anchored at j, the first \s* taking a characters and (.+?) taking
\* n: the rest, \s*<([^>]+)>\s*$, puts the email and the end of the match.
CoAuthorRest(s, j, a, n) ==
    LET ns   == j + Len(CoAuthorPrefix) + a          \* start of the name
        q    == ns + n                               \* after the name
        lt   == q + SpaceRun(s, q)                   \* where "<" must be
        es   == lt + 1                               \* start of the email
        gt   == FirstGt(s, es)                       \* the closing ">"
        t    == gt + 1
        ends == {c \in 0..SpaceRun(s, t) : LineEndAt(s, t + c)}
    IN  IF CharAt(s, lt) = "<" /\ gt > es /\ ends # {}
        THEN [ok |-> TRUE, name |-> SubSeq(s, ns, q - 1), email |-> SubSeq(s, es, gt - 1),
              end |-> t + (CHOOSE c \in ends : \A d \in ends : d <= c)]
        ELSE NoMatch

\* (.+?) is lazy: the shortest name of at least n characters the rest accepts.
RECURSIVE LazyName(_, _, _, _)
LazyName(s, j, a, n) ==
    LET last == j + Len(CoAuthorPrefix) + a + n - 1  \* the name's last character
    IN  IF last > Len(s) \/ IsLineTerminator(CharAt(s, last)) THEN NoMatch
        ELSE LET r == CoAuthorRest(s, j, a, n)
             IN  IF r.ok THEN r ELSE LazyName(s, j, a, n + 1)

\* The first \s* is greedy: the longest run of at most a characters that leads to a match.
RECURSIVE GreedySpace(_, _, _)
GreedySpace(s, j, a) ==
    IF a < 0 THEN NoMatch
    ELSE LET r == LazyName(s, j, a, 1)
         IN  IF r.ok THEN r ELSE GreedySpace(s, j, a - 1)

\* The match anchored at position j.
CoAuthorMatchAt(s, j) ==
    IF LineStartAt(s, j) /\ LitAt(CoAuthorPrefix, s, j)
    THEN GreedySpace(s, j, SpaceRun(s, j + Len(CoAuthorPrefix)))
    ELSE NoMatch

\* The leftmost match at or after position j.
RECURSIVE ScanFrom(_, _)
ScanFrom(s, j) ==
    IF j > Len(s) + 1 THEN NoMatch
    ELSE LET m == CoAuthorMatchAt(s, j)
         IN  IF m.ok THEN m ELSE ScanFrom(s, j + 1)

\* CO_AUTHOR_REGEX.exec(s) with the regex's lastIndex at li: the match and the new
\* lastIndex, the end of the match, or 0 when there is none.
RegExpExec(s, li) ==
    LET m == ScanFrom(s, li + 1)
    IN  IF m.ok
        THEN [found |-> TRUE, name |-> m.name, email |-> m.email, lastIndex |-> m.end - 1]
        ELSE [found |-> FALSE, name |-> "", email |-> "", lastIndex |-> 0]

\* The key of the seen set, line 350.
DedupKey(name, email) == toLowerCase(name) \o ":" \o email

\* The while loop of lines 347-361, from scan position li.
RECURSIVE DetectLoop(_, _, _, _)

\* lines 357-360
PushCoAuthor(coAuthors, name, email, tool) ==
    IF tool # Null
    THEN Append(coAuthors, [name |-> name, email |-> email, tool |-> tool])
    ELSE coAuthors

\* lines 350-360: the loop body after name and email are read, then the loop again
DetectPair(commitMessage, li, name, email, seen, coAuthors) ==
    IF DedupKey(name, email) \in seen
    THEN DetectLoop(commitMessage, li, seen, coAuthors)
    ELSE DetectLoop(commitMessage, li, seen \cup {DedupKey(name, email)},
                    PushCoAuthor(coAuthors, name, email, identifyAITool(name, email)))

\* The loop of lines 347-361, were it left at the first Co-Authored-By line found.
DetectStepFirstOnly(commitMessage, match, seen, coAuthors) ==
    IF ~match.found THEN [coAuthors |-> coAuthors, lastIndex |-> match.lastIndex]
    ELSE [coAuthors |-> PushCoAuthor(coAuthors, trim(match.name),
                                     toLowerCase(trim(match.email)),
                                     identifyAITool(trim(match.name),
                                                    toLowerCase(trim(match.email)))),
          lastIndex |-> match.lastIndex]

\* lines 347-349: the loop's test on exec's result, then name and email
DetectStep(commitMessage, match, seen, coAuthors) ==
    IF ~match.found THEN [coAuthors |-> coAuthors, lastIndex |-> match.lastIndex]
    ELSE DetectPair(commitMessage, match.lastIndex,
                    trim(match.name), toLowerCase(trim(match.email)), seen, coAuthors)

DetectLoop(commitMessage, li, seen, coAuthors) ==
    DetectStep(commitMessage, RegExpExec(commitMessage, li), seen, coAuthors)

\* detectAICoAuthors(commitMessage) called with the shared regex at scan position li.
detectAICoAuthors(commitMessage, li) == DetectLoop(commitMessage, li, {}, <<>>)

\* hasAIIndicators(commitMessage), lines 421-430
indicators == <<
    <<Lit("[ai]")>>,
    <<Lit("[ai-generated]")>>,
    <<Lit("generated"), Ws1, Lit("by"), Ws1, Alt({"ai", "copilot", "claude", "cursor", "codeium"})>>,
    <<Lit("ai-assisted")>> >>

hasAIIndicators(commitMessage) ==
    \E x \in 1..Len(indicators) : RegExpTest(indicators[x], commitMessage)

(***************************************************************************)
(* prs.ts: transformPR.  An optional number is <<>> (undefined) or <<n>>.  *)
(***************************************************************************)
None == <<>>
Some(n) == <<n>>

\* v || d for a string or null v
StrOr(v, d) == IF v = Null \/ v = "" THEN d ELSE v
\* v || d for an optional number v
NumOr(v, d) == IF v = None THEN d ELSE IF v[1] = 0 THEN d ELSE v[1]
\* the truth value of a string or null v
Truthy(v) == v # Null /\ v # ""

\* The state of lines 97-103, were the host's state field trusted for merged PRs.
PRStateFromRawState(raw) ==
    IF toLowerCase(raw.state) = "merged" THEN "merged"
    ELSE IF raw.state = "closed" \/ Truthy(raw.closedAt) THEN "closed"
    ELSE "open"

\* The state of lines 97-103, were closedAt alone to decide closed.
PRStateFromClosedAt(raw) ==
    IF Truthy(raw.mergedAt) THEN "merged"
    ELSE IF Truthy(raw.closedAt) THEN "closed"
    ELSE "open"

\* lines 97-103
PRState(raw) ==
    IF Truthy(raw.mergedAt) THEN "merged"
    ELSE IF raw.state = "closed" \/ Truthy(raw.closedAt) THEN "closed"
    ELSE "open"

transformPR(raw, reviews) ==
    [number       |-> raw.number,
     title        |-> raw.title,
     author       |-> StrOr(raw.author, "unknown"),
     state        |-> PRState(raw),
     isDraft      |-> raw.isDraft,
     createdAt    |-> raw.createdAt,
     updatedAt    |-> raw.updatedAt,
     mergedAt     |-> raw.mergedAt,
     closedAt     |-> raw.closedAt,
     additions    |-> NumOr(raw.additions, 0),
     deletions    |-> NumOr(raw.deletions, 0),
     changedFiles |-> NumOr(raw.changedFiles, 0),
     labels       |-> raw.labels,
     reviews      |-> reviews,
     commits      |-> NumOr(raw.commits, 0),
     comments     |-> NumOr(raw.comments, 0),
     baseBranch   |-> StrOr(raw.baseRefName, "main"),
     headBranch   |-> StrOr(raw.headRefName, ""),
     url          |-> raw.url]

(***************************************************************************)
(* commits.ts: transformCommit.                                            *)
(***************************************************************************)
\* s.split('\n')[0]
RECURSIVE FirstLine(_)
FirstLine(s) ==
    IF Len(s) = 0 \/ SubSeq(s, 1, 1) = "\n" THEN ""
    ELSE SubSeq(s, 1, 1) \o FirstLine(SubSeq(s, 2, Len(s)))

\* s.substring(0, n)
substring0(s, n) == SubSeq(s, 1, IF n < Len(s) THEN n ELSE Len(s))

\* lines 76-79: [aiCoAuthors, isAIAssisted, lastIndex], the inline indicators looked
\* for in the first line of the message only.
AIFieldsFirstLine(fullMessage, li) ==
    LET d == detectAICoAuthors(fullMessage, li)
    IN  [aiCoAuthors  |-> d.coAuthors,
         isAIAssisted |-> Len(d.coAuthors) > 0 \/ hasAIIndicators(FirstLine(fullMessage)),
         lastIndex    |-> d.lastIndex]

\* lines 76-79: [aiCoAuthors, isAIAssisted] and the shared regex's lastIndex afterwards
AIFields(fullMessage, li) ==
    LET d == detectAICoAuthors(fullMessage, li)
    IN  [aiCoAuthors  |-> d.coAuthors,
         isAIAssisted |-> Len(d.coAuthors) > 0 \/ hasAIIndicators(fullMessage),
         lastIndex    |-> d.lastIndex]

\* transformCommit(raw) with the shared regex at scan position li
transformCommit(raw, li) ==
    LET fullMessage == raw.commit.message
        ai          == AIFields(fullMessage, li)
    IN  [sha          |-> raw.sha,
         shortSha     |-> substring0(raw.sha, 7),
         message      |-> FirstLine(fullMessage),
         author       |-> StrOr(raw.author, raw.commit.author.name),
         authorEmail  |-> raw.commit.author.email,
         committedAt  |-> raw.commit.author.date,
         additions    |-> NumOr(raw.stats.additions, 0),
         deletions    |-> NumOr(raw.stats.deletions, 0),
         changedFiles |-> NumOr(raw.files, 0),
         parents      |-> raw.parents,
         isMergeCommit |-> Len(raw.parents) > 1,
         aiCoAuthors  |-> ai.aiCoAuthors,
         isAIAssisted |-> ai.isAIAssisted]

(***************************************************************************)
(* Numbers.  A JavaScript number of the report is [k, v]: finite with      *)
(* value v in the unit of its field (hundredths for toFixed(2), tenths for *)
(* toFixed(1)), NaN, or Infinity.  x.toFixed(d) rounds the exact quotient  *)
(* half up, which is what it does on the doubles of the inputs used here   *)
(* (no quotient falls on a tie that a double cannot hold).                 *)
(***************************************************************************)
Num(v)   == [k |-> "finite", v |-> v]
NaN      == [k |-> "NaN", v |-> 0]
Infinity == [k |-> "Infinity", v |-> 0]

\* num/den rounded to the nearest integer, halves away from zero (den > 0)
RoundDiv(num, den) ==
    IF num >= 0 THEN (2 * num + den) \div (2 * den)
    ELSE 0 - ((2 * (0 - num) + den) \div (2 * den))

\* Number(((a / b) * mult).toFixed(d)) with scale = 10^d, for a >= 0 and b >= 0
DivFixed(a, b, mult, scale) ==
    IF b = 0 THEN (IF a = 0 THEN NaN ELSE Infinity)
    ELSE Num(RoundDiv(a * mult * scale, b))

\* Math.ceil(a / b) for b > 0
CeilDiv(a, b) == 0 - ((0 - a) \div b)

DigitVal(c) == CHOOSE d \in 0..9 : SubSeq(DigitChars, d + 1, d + 1) = c

\* the digits of s as a number
RECURSIVE ParseDigits(_)
ParseDigits(s) ==
    IF Len(s) = 0 THEN 0
    ELSE ParseDigits(SubSeq(s, 1, Len(s) - 1)) * 10 + DigitVal(SubSeq(s, Len(s), Len(s)))

\* String(n) for an integer n >= 0
RECURSIVE IntToStr(_)
IntToStr(n) ==
    IF n < 10 THEN SubSeq(DigitChars, n + 1, n + 1)
    ELSE IntToStr(n \div 10) \o SubSeq(DigitChars, (n % 10) + 1, (n % 10) + 1)

\* x.toFixed(1) for x >= 0 given in tenths
TenthsToStr(t) == IntToStr(t \div 10) \o "." \o IntToStr(t % 10)

(***************************************************************************)
(* date.ts: timestamps "YYYY-MM-DDTHH:MM:SS...Z".  getTime is in seconds:  *)
(* the timestamps here carry no milliseconds, and milliseconds since 1970  *)
(* do not fit 32 bits.                                                     *)
(***************************************************************************)
SecondsPerHour == 3600
SecondsPerDay == 86400

\* days from 1970-01-01 to the civil date y-m-d
DaysFromCivil(y, m, d) ==
    LET yy  == IF m <= 2 THEN y - 1 ELSE y
        era == yy \div 400
        yoe == yy - era * 400
        mp  == IF m > 2 THEN m - 3 ELSE m + 9
        doy == (153 * mp + 2) \div 5 + d - 1
        doe == yoe * 365 + yoe \div 4 - yoe \div 100 + doy
    IN  era * 146097 + doe - 719468

\* new Date(s).getTime() / 1000
getTime(s) ==
    DaysFromCivil(ParseDigits(SubSeq(s, 1, 4)), ParseDigits(SubSeq(s, 6, 7)),
                  ParseDigits(SubSeq(s, 9, 10))) * SecondsPerDay
    + ParseDigits(SubSeq(s, 12, 13)) * SecondsPerHour
    + ParseDigits(SubSeq(s, 15, 16)) * 60
    + ParseDigits(SubSeq(s, 18, 19))

\* diffInHours(start, end), in seconds: the hours are this over SecondsPerHour
diffInHours(start, end) == getTime(end) - getTime(start)

\* toFixed rounds the binary value of its number.  These are the hours t, in tenths
\* and below 500 hours, whose quotient by 24 (below 7 days) or by 168 is a decimal
\* tie x.x5 that the nearest double falls short of, so that toFixed(1) rounds it down.
TiesBelowHalf ==
    {324, 348, 444, 468, 516, 588, 636, 708, 756, 828, 876, 948, 972, 996, 1092, 1116,
     1212, 1236, 1332, 1356, 1452, 1476, 1572, 1596, 1932, 2436, 2772, 3276, 3444, 3612,
     4284, 4452}

\* (t / den).toFixed(1) in tenths, for t hours in tenths
QuotientToFixed1(t, den) == RoundDiv(t, den) - (IF t \in TiesBelowHalf THEN 1 ELSE 0)

\* The units of lines 52-64, were each boundary value to belong to the smaller unit.
formatDurationInclusive(t) ==
    IF t <= 10 THEN IntToStr(t * 6) \o "m"
    ELSE IF t <= 240 THEN TenthsToStr(t) \o "h"
    ELSE IF t <= 7 * 240 THEN TenthsToStr(QuotientToFixed1(t, 24)) \o "d"
    ELSE TenthsToStr(QuotientToFixed1(t, 168)) \o "w"

\* formatDuration(hours) for hours >= 0 given in tenths
formatDuration(t) ==
    IF t < 10 THEN IntToStr(t * 6) \o "m"
    ELSE IF t < 240 THEN TenthsToStr(t) \o "h"
    ELSE IF t < 7 * 240 THEN TenthsToStr(QuotientToFixed1(t, 24)) \o "d"
    ELSE TenthsToStr(QuotientToFixed1(t, 168)) \o "w"

(***************************************************************************)
(* Arrays and insertion-ordered Maps.                                      *)
(***************************************************************************)
\* Array.prototype.sort is stable: the permutation that sorts the keys ascending,
\* equal keys staying in their order.
SortPerm(keys) ==
    LET n == Len(keys)
        rank(i) == Cardinality({j \in 1..n : keys[j] < keys[i]})
                   + Cardinality({j \in 1..(i - 1) : keys[j] = keys[i]}) + 1
    IN  [r \in 1..n |-> CHOOSE i \in 1..n : rank(i) = r]

\* seq sorted by its parallel sequence of keys
SortByKeys(seq, keys) == [r \in 1..Len(seq) |-> seq[SortPerm(keys)[r]]]

\* The keys of a Map filled by set(k, ..) for each k of ks in turn: the distinct
\* elements of ks in order of first appearance.
MapKeys(ks) ==
    LET first == {i \in 1..Len(ks) : \A j \in 1..(i - 1) : ks[j] # ks[i]}
    IN  [r \in 1..Cardinality(first) |->
            ks[CHOOSE i \in first : Cardinality({j \in first : j < i}) = r - 1]]

\* how many elements of ks equal k
CountOf(ks, k) == Cardinality({i \in 1..Len(ks) : ks[i] = k})

RECURSIVE SumSeq(_)
SumSeq(xs) == IF Len(xs) = 0 THEN 0 ELSE Head(xs) + SumSeq(Tail(xs))

\* xs.flat() for a sequence of sequences
RECURSIVE Flat(_)
Flat(xss) == IF Len(xss) = 0 THEN <<>> ELSE Head(xss) \o Flat(Tail(xss))

(***************************************************************************)
(* metrics.ts: calculateStats, calculateSizeDistribution.                  *)
(***************************************************************************)
\* calculateStats(values): values are hours in seconds, results hours in tenths
StatsOfSorted(sorted) ==
    [average |-> RoundDiv(SumSeq(sorted) * 10, Len(sorted) * SecondsPerHour),
     median  |-> RoundDiv(sorted[(Len(sorted) \div 2) + 1] * 10, SecondsPerHour),
     p90     |-> RoundDiv(sorted[((Len(sorted) * 9) \div 10) + 1] * 10, SecondsPerHour)]

\* calculateStats, were line 386 to leave the values in the order given.
calculateStatsUnsorted(values) ==
    IF Len(values) = 0 THEN [average |-> 0, median |-> 0, p90 |-> 0]
    ELSE StatsOfSorted(values)

\* line 386: [...values].sort(...) sorts a copy, the values passed in stay as they are
ValuesAfterCalculateStats(values) == values

calculateStats(values) ==
    IF Len(values) = 0 THEN [average |-> 0, median |-> 0, p90 |-> 0]
    ELSE StatsOfSorted(SortByKeys(values, values))

\* The buckets of lines 408-418, were each boundary to belong to the smaller bucket.
SizeBucketInclusive(size) ==
    IF size <= 10 THEN "xs"
    ELSE IF size <= 100 THEN "s"
    ELSE IF size <= 500 THEN "m"
    ELSE IF size <= 1000 THEN "l"
    ELSE "xl"

SizeBucket(size) ==
    IF size < 10 THEN "xs"
    ELSE IF size < 100 THEN "s"
    ELSE IF size < 500 THEN "m"
    ELSE IF size < 1000 THEN "l"
    ELSE "xl"

calculateSizeDistribution(prs) ==
    [b \in {"xs", "s", "m", "l", "xl"} |->
        Cardinality({i \in 1..Len(prs) : SizeBucket(prs[i].additions + prs[i].deletions) = b})]

(***************************************************************************)
(* metrics.ts: calculateAIMetrics.                                         *)
(***************************************************************************)
\* the tools of the co-authors of the AI-assisted commits among cs, in order
RECURSIVE ToolTags(_)
ToolTags(cs) ==
    IF Len(cs) = 0 THEN <<>>
    ELSE (IF Head(cs).isAIAssisted
          THEN [i \in 1..Len(Head(cs).aiCoAuthors) |-> Head(cs).aiCoAuthors[i].tool]
          ELSE <<>>) \o ToolTags(Tail(cs))

\* the author of each tag of ToolTags(cs), in the same order
RECURSIVE TagAuthors(_)
TagAuthors(cs) ==
    IF Len(cs) = 0 THEN <<>>
    ELSE (IF Head(cs).isAIAssisted
          THEN [i \in 1..Len(Head(cs).aiCoAuthors) |-> Head(cs).author]
          ELSE <<>>) \o TagAuthors(Tail(cs))

CommitsOf(commits, author) == SelectSeq(commits, LAMBDA c : c.author = author)
AICommits(commits) == SelectSeq(commits, LAMBDA c : c.isAIAssisted)

\* The primary tool of lines 324-331, were a later tool to replace on an equal count.
PrimaryToolLastMax(tags) ==
    IF Len(tags) = 0 THEN Null
    ELSE LET keys == MapKeys(tags)
         IN  keys[CHOOSE i \in 1..Len(keys) :
                    /\ \A j \in 1..Len(keys) : CountOf(tags, keys[j]) <= CountOf(tags, keys[i])
                    /\ \A j \in (i + 1)..Len(keys) : CountOf(tags, keys[j]) < CountOf(tags, keys[i])]

\* lines 324-331: the first key of the tools Map with the largest count, null when
\* the Map is empty
PrimaryToolOf(tags) ==
    IF Len(tags) = 0 THEN Null
    ELSE LET keys == MapKeys(tags)
         IN  keys[CHOOSE i \in 1..Len(keys) :
                    /\ \A j \in 1..Len(keys) : CountOf(tags, keys[j]) <= CountOf(tags, keys[i])
                    /\ \A j \in 1..(i - 1) : CountOf(tags, keys[j]) < CountOf(tags, keys[i])]

\* Number((a / b).toFixed(2)) guarded by b > 0
Ratio2(a, b) == IF b > 0 THEN DivFixed(a, b, 1, 100) ELSE Num(0)

\* lines 289-304, 320-340: one entry of byUser before the filter and the sort
UserEntry(commits, author) ==
    [author       |-> author,
     aiCommits    |-> Len(AICommits(CommitsOf(commits, author))),
     totalCommits |-> Len(CommitsOf(commits, author)),
     ratio        |-> Ratio2(Len(AICommits(CommitsOf(commits, author))),
                             Len(CommitsOf(commits, author))),
     primaryTool  |-> PrimaryToolOf(ToolTags(CommitsOf(commits, author)))]

UserEntries(commits, authors) ==
    [i \in 1..Len(authors) |-> UserEntry(commits, authors[i])]

\* .sort((a, b) => b.aiCommits - a.aiCommits)
SortByAICommitsDesc(entries) ==
    SortByKeys(entries, [i \in 1..Len(entries) |-> 0 - entries[i].aiCommits])

\* lines 306-318
ToolEntry(tags, tagAuthors, tool) ==
    [tool    |-> tool,
     commits |-> CountOf(tags, tool),
     users   |-> Cardinality({tagAuthors[i] : i \in {j \in 1..Len(tags) : tags[j] = tool}})]

ToolEntries(tags, tagAuthors, tools) ==
    [i \in 1..Len(tools) |-> ToolEntry(tags, tagAuthors, tools[i])]

SortByCommitsDesc(entries) ==
    SortByKeys(entries, [i \in 1..Len(entries) |-> 0 - entries[i].commits])

\* committedAt.split('T')[0]
RECURSIVE DatePart(_)
DatePart(s) ==
    IF Len(s) = 0 \/ SubSeq(s, 1, 1) = "T" THEN ""
    ELSE SubSeq(s, 1, 1) \o DatePart(SubSeq(s, 2, Len(s)))

\* a.date.localeCompare(b.date) orders dates YYYY-MM-DD as the numbers YYYYMMDD
DateKey(date) ==
    ParseDigits(SubSeq(date, 1, 4) \o SubSeq(date, 6, 7) \o SubSeq(date, 9, 10))

\* lines 343-361
TrendEntry(commits, date) ==
    [date         |-> date,
     aiCommits    |-> Len(AICommits(SelectSeq(commits, LAMBDA c : DatePart(c.committedAt) = date))),
     totalCommits |-> Len(SelectSeq(commits, LAMBDA c : DatePart(c.committedAt) = date)),
     ratio        |-> Ratio2(Len(AICommits(SelectSeq(commits,
                                     LAMBDA c : DatePart(c.committedAt) = date))),
                             Len(SelectSeq(commits, LAMBDA c : DatePart(c.committedAt) = date)))]

TrendEntries(commits, dates) ==
    [i \in 1..Len(dates) |-> TrendEntry(commits, dates[i])]

\* The trend of lines 354-361, were the entries left in the order of the Map.
TrendInMapOrder(entries) == entries

SortByDate(entries) ==
    SortByKeys(entries, [i \in 1..Len(entries) |-> DateKey(entries[i].date)])

AuthorsOf(commits) == MapKeys([i \in 1..Len(commits) |-> commits[i].author])

\* The filter of line 340, were every author with commits kept.
HasCommits(u) == u.totalCommits > 0

\* line 340: .filter((u) => u.aiCommits > 0)
HasAICommits(u) == u.aiCommits > 0

calculateAIMetrics(commits) ==
    [summary |->
        [totalAICommits |-> Len(AICommits(commits)),
         totalCommits   |-> Len(commits),
         aiRatio        |-> Ratio2(Len(AICommits(commits)), Len(commits)),
         usersWithAI    |-> Cardinality({i \in 1..Len(commits) : commits[i].isAIAssisted}
                                \cap {i \in 1..Len(commits) :
                                        \A j \in 1..(i - 1) :
                                            ~(commits[j].isAIAssisted
                                              /\ commits[j].author = commits[i].author)}),
         totalUsers     |-> Len(AuthorsOf(commits))],
     byTool  |-> SortByCommitsDesc(ToolEntries(ToolTags(commits), TagAuthors(commits),
                                               MapKeys(ToolTags(commits)))),
     byUser  |-> SortByAICommitsDesc(SelectSeq(UserEntries(commits, AuthorsOf(commits)),
                                               HasAICommits)),
     trend   |-> SortByDate(TrendEntries(commits,
                    MapKeys([i \in 1..Len(commits) |-> DatePart(commits[i].committedAt)])))]

(***************************************************************************)
(* metrics.ts: calculateAllMetrics.  repositories is the object's entries  *)
(* in key order, [repo, items].                                            *)
(***************************************************************************)
ItemsOf(repositories) == Flat([i \in 1..Len(repositories) |-> repositories[i].items])

DeploymentsOf(repositories) ==
    Flat([i \in 1..Len(repositories) |-> repositories[i].items.deployments])

IsMerged(pr) == pr.state = "merged" /\ Truthy(pr.mergedAt)

\* The range of line 174, were its first and last day both counted.
RangeDaysInclusive(dateRange) ==
    CeilDiv(getTime(dateRange.end) - getTime(dateRange.start), SecondsPerDay) + 1

\* line 174
RangeDays(dateRange) ==
    CeilDiv(getTime(dateRange.end) - getTime(dateRange.start), SecondsPerDay)

\* lines 184-186: pr.reviews.sort(by submittedAt)
SortReviews(reviews) ==
    SortByKeys(reviews, [i \in 1..Len(reviews) |-> getTime(reviews[i].submittedAt)])

\* The first review, were it read before the list is sorted.
FirstReviewUnsorted(pr) == pr.reviews[1]

\* lines 184-186: the sorted list's first element
FirstReview(pr) == SortReviews(pr.reviews)[1]

\* line 189
KeepReviewTime(t) == t > 0

\* lines 181-188: the hours to the first review of each merged pull request that
\* has reviews
FirstReviewTimes(reviewed) ==
    [i \in 1..Len(reviewed) |->
        diffInHours(reviewed[i].createdAt, FirstReview(reviewed[i]).submittedAt)]

\* lines 181-189
TimeToFirstReview(mergedPRs) ==
    SelectSeq(FirstReviewTimes(SelectSeq(mergedPRs, LAMBDA pr : Len(pr.reviews) > 0)),
              KeepReviewTime)

\* line 177 and line 193
LeadTimes(mergedPRs) ==
    [i \in 1..Len(mergedPRs) |-> diffInHours(mergedPRs[i].createdAt, mergedPRs[i].mergedAt)]

\* lines 206-213
ContributorEntries(allCommits, authors) ==
    [i \in 1..Len(authors) |->
        [author  |-> authors[i],
         commits |-> Cardinality({j \in 1..Len(allCommits) : allCommits[j].author = authors[i]})]]

\* The top of lines 210-213, were the first ten authors taken before sorting.
TopContributorsUnsorted(allCommits) ==
    SortByCommitsDesc(SubSeq(ContributorEntries(allCommits, AuthorsOf(allCommits)), 1,
                             IF Len(AuthorsOf(allCommits)) < 10 THEN Len(AuthorsOf(allCommits))
                             ELSE 10))

TopContributors(allCommits) ==
    SubSeq(SortByCommitsDesc(ContributorEntries(allCommits, AuthorsOf(allCommits))), 1,
           IF Len(AuthorsOf(allCommits)) < 10 THEN Len(AuthorsOf(allCommits)) ELSE 10)

CountState(items, states) == Cardinality({i \in 1..Len(items) : items[i].state \in states})

\* line 197
successfulDeployments(allDeployments) ==
    SelectSeq(allDeployments, LAMBDA d : d.state = "success")

\* The failed deployments of lines 198-200, were state error not to count.
failedDeploymentsFailureOnly(allDeployments) ==
    SelectSeq(allDeployments, LAMBDA d : d.state = "failure")

\* lines 198-200
failedDeployments(allDeployments) ==
    SelectSeq(allDeployments, LAMBDA d : d.state = "failure" \/ d.state = "error")

\* line 235: Number((successful / rangeDays).toFixed(2)), in hundredths
deploymentsPerDay(successful, rangeDays) == DivFixed(successful, rangeDays, 1, 100)

\* The perWeek of line 236, were it 7 times the rounded perDay.
deploymentsPerWeekFromRounded(successful, rangeDays) ==
    IF rangeDays = 0 THEN deploymentsPerDay(successful, rangeDays)
    ELSE Num(7 * deploymentsPerDay(successful, rangeDays).v)

\* line 236: Number(((successful / rangeDays) * 7).toFixed(2)), in hundredths
deploymentsPerWeek(successful, rangeDays) == DivFixed(successful, rangeDays, 7, 100)

\* lines 218-277
ReportOf(prData, allPRs, mergedPRs, allCommits, allDeployments, rangeDays, leadTimeStats, timeToFirstReviewStats, timeToMergeStats, now) ==
    [calculatedAt |-> now,
     dateRange    |-> prData.dateRange,
     summary      |-> [repositories     |-> Len(prData.repositories),
                       totalPRs         |-> Len(allPRs),
                       totalCommits     |-> Len(allCommits),
                       totalDeployments |-> Len(allDeployments)],
     dora |->
        [leadTimeForChanges |->
            [averageHours |-> Num(leadTimeStats.average),
             medianHours  |-> Num(leadTimeStats.median),
             p90Hours     |-> Num(leadTimeStats.p90),
             formatted    |-> formatDuration(leadTimeStats.median)],
         deploymentFrequency |->
            [perDay  |-> deploymentsPerDay(Len(successfulDeployments(allDeployments)), rangeDays),
             perWeek |-> deploymentsPerWeek(Len(successfulDeployments(allDeployments)), rangeDays)],
         changeFailureRate |->
            [percentage |-> IF Len(allDeployments) > 0
                            THEN DivFixed(Len(failedDeployments(allDeployments)),
                                          Len(allDeployments), 100, 10)
                            ELSE Num(0),
             failed     |-> Len(failedDeployments(allDeployments)),
             total      |-> Len(allDeployments)]],
     pullRequests |->
        [timeToFirstReview |->
            [averageHours |-> Num(timeToFirstReviewStats.average),
             medianHours  |-> Num(timeToFirstReviewStats.median),
             formatted    |-> formatDuration(timeToFirstReviewStats.median)],
         timeToMerge |->
            [averageHours |-> Num(timeToMergeStats.average),
             medianHours  |-> Num(timeToMergeStats.median),
             formatted    |-> formatDuration(timeToMergeStats.median)],
         throughput |->
            [opened |-> Len(allPRs),
             merged |-> Len(mergedPRs),
             closed |-> CountState(allPRs, {"closed"})],
         sizeDistribution |-> calculateSizeDistribution(allPRs)],
     commits |->
        [total     |-> Len(allCommits),
         frequency |-> [perDay  |-> DivFixed(Len(allCommits), rangeDays, 1, 100),
                        perWeek |-> DivFixed(Len(allCommits), rangeDays, 7, 100)],
         contributors |-> [total |-> Len(AuthorsOf(allCommits)),
                           top   |-> TopContributors(allCommits)]],
     ai |-> calculateAIMetrics(allCommits)]

MetricsOf(prData, allPRs, mergedPRs, allCommits, allDeployments, now) ==
    ReportOf(prData, allPRs, mergedPRs, allCommits, allDeployments,
             RangeDays(prData.dateRange),
             calculateStats(LeadTimes(mergedPRs)),
             calculateStats(TimeToFirstReview(mergedPRs)),
             calculateStats(LeadTimes(mergedPRs)),
             now)

\* the value calculateAllMetrics returns, when new Date().toISOString() is now
calculateAllMetrics(prData, commitData, deploymentData, now) ==
    MetricsOf(prData,
              ItemsOf(prData.repositories),
              SelectSeq(ItemsOf(prData.repositories), IsMerged),
              ItemsOf(commitData.repositories),
              DeploymentsOf(deploymentData.repositories),
              now)

\* What the call leaves in prData: line 184 sorts, in place, the reviews of every
\* merged pull request that has reviews.
ReviewsSortedInPlace(prData) ==
    [prData EXCEPT !.repositories =
        [i \in 1..Len(prData.repositories) |->
            [prData.repositories[i] EXCEPT !.items =
                [j \in 1..Len(prData.repositories[i].items) |->
                    IF IsMerged(prData.repositories[i].items[j])
                       /\ Len(prData.repositories[i].items[j].reviews) > 0
                    THEN [prData.repositories[i].items[j] EXCEPT !.reviews = SortReviews(@)]
                    ELSE prData.repositories[i].items[j]]]]]

(***************************************************************************)
(* The extractors: extractPRs, extractCommits, extractDeployments.  What   *)
(* the host answers to a fetch is Ok(raw records), or Fail when the gh call *)
(* rejects; extractPRs returns Ok(prs) or throws (Fail).                   *)
(***************************************************************************)
Ok(items) == [ok |-> TRUE, items |-> items]
Fail == [ok |-> FALSE, items |-> <<>>]

\* xs.includes(x)
Includes(xs, x) == \E i \in 1..Len(xs) : xs[i] = x

\* prs.ts lines 63-78: the three continue tests, were a label excluded only when
\* every excluded label is on the PR.
PRSkippedAllLabels(raw, settings) ==
    \/ settings.excludeDraftPRs /\ raw.isDraft
    \/ Includes(settings.excludeAuthors, StrOr(raw.author, "unknown"))
    \/ /\ Len(settings.excludeLabels) > 0
       /\ \A i \in 1..Len(settings.excludeLabels) :
            Includes(raw.labels, settings.excludeLabels[i])

\* prs.ts lines 63-78: the three continue tests
PRSkipped(raw, settings) ==
    \/ settings.excludeDraftPRs /\ raw.isDraft
    \/ Includes(settings.excludeAuthors, StrOr(raw.author, "unknown"))
    \/ \E i \in 1..Len(settings.excludeLabels) :
            Includes(raw.labels, settings.excludeLabels[i])

\* prs.ts lines 130-153: the reviews of one PR, none when the fetch fails
getPRReviews(response) ==
    IF ~response.ok THEN <<>>
    ELSE [i \in 1..Len(response.items) |->
            [author      |-> StrOr(response.items[i].user, "unknown"),
             state       |-> response.items[i].state,
             submittedAt |-> response.items[i].submitted_at]]

TransformPRs(kept, reviewsOf) ==
    [i \in 1..Len(kept) |-> transformPR(kept[i], getPRReviews(reviewsOf[kept[i].number]))]

\* prs.ts lines 35-90: the PRs returned, or Fail when ghPrList rejects
extractPRs(rawPRs, reviewsOf, settings) ==
    IF ~rawPRs.ok THEN Fail
    ELSE Ok(TransformPRs(SelectSeq(rawPRs.items, LAMBDA raw : ~PRSkipped(raw, settings)),
                         reviewsOf))

\* commits.ts lines 41-46
CommitSkipped(raw, settings) ==
    Includes(settings.excludeAuthors, StrOr(raw.author, raw.commit.author.name))

\* Each transformCommit finds the shared regex at lastIndex 0: the loop of
\* detectAICoAuthors ends on the exec that fails, which resets it.
TransformCommits(kept) == [i \in 1..Len(kept) |-> transformCommit(kept[i], 0)]

\* commits.ts lines 16-62: the catch turns a rejected fetch into no commits
extractCommits(rawCommits, settings) ==
    IF ~rawCommits.ok THEN <<>>
    ELSE TransformCommits(SelectSeq(rawCommits.items,
                                    LAMBDA raw : ~CommitSkipped(raw, settings)))

\* isWithinRange(date, start, end)
isWithinRange(date, start, end) ==
    getTime(date) >= getTime(start) /\ getTime(date) <= getTime(end)

\* Lower-case names that a lookup in an object literal finds on Object.prototype.
InheritedKeys == {"constructor", "__proto__"}

\* normalizeDeploymentState: stateMap[state.toLowerCase()] || 'pending'
normalizeDeploymentState(state) ==
    IF toLowerCase(state) \in {"success", "failure", "error", "pending", "in_progress",
                               "queued", "inactive"}
    THEN toLowerCase(state)
    ELSE IF toLowerCase(state) \in InheritedKeys THEN "<Object." \o toLowerCase(state) \o ">"
    ELSE "pending"

transformDeployment(raw) ==
    [id |-> IntToStr(raw.id), environment |-> raw.environment,
     state |-> normalizeDeploymentState(raw.state),
     createdAt |-> raw.created_at, updatedAt |-> raw.updated_at,
     sha |-> raw.sha, ref |-> raw.ref, creator |-> StrOr(raw.creator, "unknown"),
     description |-> raw.description]

TransformDeployments(kept) == [i \in 1..Len(kept) |-> transformDeployment(kept[i])]

\* fetchDeployments: the catch turns a rejected fetch into no deployments
fetchDeployments(rawDeployments, since, until) ==
    IF ~rawDeployments.ok THEN <<>>
    ELSE TransformDeployments(SelectSeq(rawDeployments.items,
                                LAMBDA raw : isWithinRange(raw.created_at, since, until)))

transformRelease(raw) ==
    [id |-> raw.id, tagName |-> raw.tag_name, name |-> StrOr(raw.name, raw.tag_name),
     createdAt |-> raw.created_at, publishedAt |-> StrOr(raw.published_at, raw.created_at),
     author |-> StrOr(raw.author, "unknown"), isDraft |-> raw.draft,
     isPrerelease |-> raw.prerelease, targetCommitish |-> raw.target_commitish]

TransformReleases(kept) == [i \in 1..Len(kept) |-> transformRelease(kept[i])]

fetchReleases(rawReleases, since, until) ==
    IF ~rawReleases.ok THEN <<>>
    ELSE TransformReleases(SelectSeq(rawReleases.items,
            LAMBDA raw : ~raw.draft /\ isWithinRange(StrOr(raw.published_at, raw.created_at),
                                                     since, until)))

extractDeployments(rawDeployments, rawReleases, since, until) ==
    [deployments |-> fetchDeployments(rawDeployments, since, until),
     releases    |-> fetchReleases(rawReleases, since, until)]

(***************************************************************************)
(* ai-detection.ts: calculateAIStats, the aiSummary of commits.json.       *)
(***************************************************************************)
\* the tools of the co-authors of all commits cs, in order
RECURSIVE AllToolTags(_)
AllToolTags(cs) ==
    IF Len(cs) = 0 THEN <<>>
    ELSE [i \in 1..Len(Head(cs).aiCoAuthors) |-> Head(cs).aiCoAuthors[i].tool]
         \o AllToolTags(Tail(cs))

ToolCounts(tags, tools) == [i \in 1..Len(tools) |-> [tool |-> tools[i], count |-> CountOf(tags, tools[i])]]

AuthorStats(commits, authors) ==
    [i \in 1..Len(authors) |->
        [author       |-> authors[i],
         aiCommits    |-> Len(AICommits(CommitsOf(commits, authors[i]))),
         totalCommits |-> Len(CommitsOf(commits, authors[i])),
         ratio        |-> Ratio2(Len(AICommits(CommitsOf(commits, authors[i]))),
                                 Len(CommitsOf(commits, authors[i])))]]

calculateAIStats(commits) ==
    [totalCommits      |-> Len(commits),
     aiAssistedCommits |-> Len(AICommits(commits)),
     aiRatio           |-> Ratio2(Len(AICommits(commits)), Len(commits)),
     byTool  |-> SortByKeys(ToolCounts(AllToolTags(commits), MapKeys(AllToolTags(commits))),
                            [i \in 1..Len(MapKeys(AllToolTags(commits))) |->
                                0 - CountOf(AllToolTags(commits), MapKeys(AllToolTags(commits))[i])]),
     byAuthor |-> SortByAICommitsDesc(AuthorStats(commits, AuthorsOf(commits)))]

(***************************************************************************)
(* extract.ts: extractCommand, in its steps.  A document's repositories    *)
(* object is the sequence of its entries [repo, items] in key order.       *)
(***************************************************************************)
\* repositories[repo] = items
SetEntry(repositories, repo, items) ==
    IF \E i \in 1..Len(repositories) : repositories[i].repo = repo
    THEN [i \in 1..Len(repositories) |->
            IF repositories[i].repo = repo THEN [repo |-> repo, items |-> items]
            ELSE repositories[i]]
    ELSE Append(repositories, [repo |-> repo, items |-> items])

\* Lines 138-149, were a repository whose PR extraction fails left out of the document.
RecordPRsSkippingFailed(repositories, repo, result) ==
    IF result.ok THEN SetEntry(repositories, repo, result.items) ELSE repositories

\* lines 138-149: the try stores what extractPRs returned, the catch stores []
RecordPRs(repositories, repo, result) ==
    SetEntry(repositories, repo, IF result.ok THEN result.items ELSE <<>>)

\* daysAgo(days, from) for timestamps of the form YYYY-MM-DDT00:00:00Z in January
daysAgo(days, from) ==
    SubSeq(from, 1, 8)
    \o (IF ParseDigits(SubSeq(from, 9, 10)) - days < 10 THEN "0" ELSE "")
    \o IntToStr(ParseDigits(SubSeq(from, 9, 10)) - days)
    \o SubSeq(from, 11, Len(from))

\* lines 112-129
EmptyDocuments(now, days) ==
    [prData         |-> [extractedAt |-> now,
                         dateRange |-> [start |-> daysAgo(days, now), end |-> now],
                         repositories |-> <<>>],
     commitData     |-> [extractedAt |-> now,
                         dateRange |-> [start |-> daysAgo(days, now), end |-> now],
                         repositories |-> <<>>, aiSummary |-> <<>>],
     deploymentData |-> [extractedAt |-> now,
                         dateRange |-> [start |-> daysAgo(days, now), end |-> now],
                         repositories |-> <<>>]]

\* lines 132-187: one turn of the loop over the accessible repositories
ExtractedFrom(docs, repo, answer, settings, now, days) ==
    [prData |->
        [docs.prData EXCEPT !.repositories =
            RecordPRs(@, repo, extractPRs(answer.prs, answer.reviews, settings))],
     commitData |->
        [docs.commitData EXCEPT !.repositories =
            SetEntry(@, repo, extractCommits(answer.commits, settings))],
     deploymentData |->
        [docs.deploymentData EXCEPT !.repositories =
            SetEntry(@, repo, extractDeployments(answer.deployments, answer.releases,
                                                 daysAgo(days, now), now))]]

\* lines 190-194
WithAISummary(commitData) ==
    IF Len(ItemsOf(commitData.repositories)) > 0
    THEN [commitData EXCEPT !.aiSummary = <<calculateAIStats(ItemsOf(commitData.repositories))>>]
    ELSE commitData

(***************************************************************************)
(* Inputs of the classifier.                                               *)
(***************************************************************************)
Names == {
    "", "Bob", "Claude", "claude-release-bot", "GitHub Copilot", "dependabot[bot]",
    "Q", "Gemini Pro", "AI Assistant", "deploy-gpt", "Cursor AI", "chatgpt",
    "Windsurf", "Amazon Q", "auto_code" }

Emails == {
    "", "bob@example.com", "noreply@anthropic.com", "bob@google.com", "q@amazon.com",
    "dev@amazon.com", "copilot@github.com", "sync@cursor.sh", "llm@corp.io",
    "41898282+github-actions[bot]@users.noreply.github.com" }

\* Lines of commit messages.
Lines == <<
    "feat: add parser",
    "Co-Authored-By: Claude <noreply@anthropic.com>",
    "co-authored-by:  claude <NoReply@Anthropic.com>  ",
    "Co-authored-by: Bob <bob@example.com>",
    "Co-Authored-By: gpt:a <b@x.io>",
    "Co-Authored-By: gpt <a:b@x.io>",
    "Co-Authored-By: GitHub Copilot <copilot@github.com>" >>

\* Commit messages of one, two and three lines.
Messages ==
    {Lines[i] : i \in 1..Len(Lines)}
    \cup {Lines[i] \o "\n" \o Lines[j] : i, j \in 1..Len(Lines)}
    \cup {Lines[1] \o "\n\n" \o Lines[i] \o "\n" \o Lines[j] : i, j \in 2..4}

Pending == "<pending>"

ClsIdle == [name |-> "", email |-> "", tool |-> Pending, returned |-> FALSE]
DetIdle == [message |-> "", coAuthors |-> <<>>, calls |-> 0]
PrtIdle == [raw |-> Null, reviews |-> <<>>, pr |-> Null, returned |-> FALSE]
CmtIdle == [raw |-> Null, commit |-> Null, returned |-> FALSE]
MetIdle == [files |-> Null, docs |-> Null, reports |-> <<>>]
ExtIdle == [pc |-> "idle"]
FltIdle == [pc |-> "idle"]
FnIdle == [pc |-> "idle"]
GhIdle == [pc |-> "idle"]
IniIdle == [pc |-> "idle"]

\* Raw pull requests as `gh pr list --json` gives them (PR_JSON_FIELDS: no commits,
\* no comments); the host's state field in the spellings of gh and of the REST API.
RawPRs ==
    {[number |-> 7, title |-> "Add parser", state |-> st, isDraft |-> dr,
      createdAt |-> "2024-01-01T09:00:00Z", updatedAt |-> "2024-01-03T09:00:00Z",
      mergedAt |-> ma, closedAt |-> ca,
      additions |-> ad, deletions |-> Some(3), changedFiles |-> Some(2),
      labels |-> <<"bug">>, commits |-> None, comments |-> None,
      baseRefName |-> "main", headRefName |-> "feature/parser",
      url |-> "https://github.com/o/r/pull/7", author |-> au] :
        st \in {"OPEN", "CLOSED", "MERGED", "closed"},
        dr \in BOOLEAN,
        ma \in {Null, "2024-01-02T09:00:00Z"},
        ca \in {Null, "2024-01-02T09:00:00Z"},
        ad \in {None, Some(12)},
        au \in {Null, "alice"}}

ReviewLists ==
    {<<>>, <<[author |-> "bob", state |-> "APPROVED", submittedAt |-> "2024-01-01T10:00:00Z"]>>}

\* Commit messages with inline indicators, besides those with co-author lines.
CommitMessages ==
    Messages \cup {
        "[AI] tidy up",
        "chore: bump deps\n\nGenerated by\nClaude",
        "fix: Thai-assisted input",
        "Fix [ai-generated] tests\n\nCo-Authored-By: Claude <noreply@anthropic.com>",
        "docs: degenerated by claude" }

RawCommits ==
    {[sha |-> "0123456789abcdef0123456789abcdef01234567",
      commit |-> [message |-> m,
                  author |-> [name |-> "Alice A", email |-> "alice@example.com",
                              date |-> "2024-01-02T10:00:00Z"]],
      author |-> au,
      stats |-> st,
      files |-> IF st.additions = None THEN None ELSE Some(2),
      parents |-> pa] :
        m \in CommitMessages,
        au \in {Null, "alice"},
        st \in {[additions |-> None, deletions |-> None],
                [additions |-> Some(10), deletions |-> Some(0)]},
        pa \in {<<"aaaa">>, <<"aaaa", "bbbb">>}}

(***************************************************************************)
(* Inputs of the metrics command: the three documents extract wrote.       *)
(***************************************************************************)
MaxItems == 2
MaxRuns == 2

MkReview(author, submittedAt) ==
    [author |-> author, state |-> "APPROVED", submittedAt |-> submittedAt]

\* a pull request opened 2024-01-01 09:00
MkPR(number, state, mergedAt, closedAt, additions, reviews) ==
    [number |-> number, title |-> "Add parser", author |-> "alice", state |-> state,
     isDraft |-> FALSE, createdAt |-> "2024-01-01T09:00:00Z",
     updatedAt |-> "2024-01-03T09:00:00Z", mergedAt |-> mergedAt, closedAt |-> closedAt,
     additions |-> additions, deletions |-> 3, changedFiles |-> 2, labels |-> <<>>,
     reviews |-> reviews, commits |-> 1, comments |-> 0, baseBranch |-> "main",
     headBranch |-> "feature/parser", url |-> "https://github.com/o/a/pull/1"]

PRPool ==
    { MkPR(1, "open", Null, Null, 2, <<>>),
      MkPR(2, "closed", Null, "2024-01-03T09:00:00Z", 50,
           <<MkReview("bob", "2024-01-01T10:00:00Z")>>),
      MkPR(3, "merged", "2024-01-02T13:00:00Z", "2024-01-02T13:00:00Z", 150, <<>>),
      MkPR(4, "merged", "2024-01-01T13:00:00Z", "2024-01-01T13:00:00Z", 700,
           <<MkReview("bob", "2024-01-01T10:00:00Z"), MkReview("carol", "2024-01-01T12:00:00Z")>>),
      MkPR(5, "merged", "2024-01-01T13:00:00Z", "2024-01-01T13:00:00Z", 1200,
           <<MkReview("bob", "2024-01-01T12:00:00Z"), MkReview("carol", "2024-01-01T10:00:00Z")>>),
      MkPR(6, "merged", "2024-01-01T13:00:00Z", "2024-01-01T13:00:00Z", 20,
           <<MkReview("bob", "2024-01-01T09:00:00Z")>>),
      MkPR(7, "merged", "2024-01-01T13:00:00Z", "2024-01-01T13:00:00Z", 20,
           <<MkReview("bob", "2024-01-01T08:00:00Z")>>) }

MkCommit(author, committedAt, aiCoAuthors, isAIAssisted) ==
    [sha |-> "0123456789abcdef0123456789abcdef01234567", shortSha |-> "0123456",
     message |-> "Add feature", author |-> author, authorEmail |-> "dev@example.com",
     committedAt |-> committedAt, additions |-> 10, deletions |-> 0, changedFiles |-> 1,
     parents |-> <<"aaaa">>, isMergeCommit |-> FALSE,
     aiCoAuthors |-> aiCoAuthors, isAIAssisted |-> isAIAssisted]

ClaudeCoAuthor == [name |-> "Claude", email |-> "noreply@anthropic.com", tool |-> "claude"]
CopilotCoAuthor ==
    [name |-> "GitHub Copilot", email |-> "copilot@github.com", tool |-> "copilot"]
ClaudeOpusCoAuthor ==
    [name |-> "Claude Opus", email |-> "claude@anthropic.com", tool |-> "claude"]

CommitPool ==
    { MkCommit("alice", "2024-01-02T10:00:00Z", <<>>, FALSE),
      MkCommit("alice", "2024-01-01T10:00:00Z", <<ClaudeCoAuthor>>, TRUE),
      MkCommit("bob", "2024-01-02T11:00:00Z", <<CopilotCoAuthor, ClaudeCoAuthor>>, TRUE),
      MkCommit("bob", "2024-01-01T11:00:00Z", <<>>, TRUE),
      MkCommit("bob", "2024-01-03T11:00:00Z", <<ClaudeCoAuthor>>, TRUE),
      MkCommit("carol", "2024-01-03T10:00:00Z", <<ClaudeCoAuthor, ClaudeOpusCoAuthor>>, TRUE) }

MkDeployment(state) ==
    [id |-> "42", environment |-> "production", state |-> state,
     createdAt |-> "2024-01-02T12:00:00Z", updatedAt |-> "2024-01-02T12:05:00Z",
     sha |-> "0123456789abcdef0123456789abcdef01234567", ref |-> "main",
     creator |-> "alice", description |-> Null]

DeploymentPool == {MkDeployment(st) : st \in {"success", "failure", "error", "pending"}}

\* extract --days 0, --days 1 over a day of 25 hours (a clock change), --days 7
DateRanges ==
    { [start |-> "2024-01-08T00:00:00.000Z", end |-> "2024-01-08T00:00:00.000Z"],
      [start |-> "2024-01-06T23:00:00.000Z", end |-> "2024-01-08T00:00:00.000Z"],
      [start |-> "2024-01-01T00:00:00.000Z", end |-> "2024-01-08T00:00:00.000Z"] }

FrontHalf(s) == SubSeq(s, 1, (Len(s) + 1) \div 2)
BackHalf(s) == SubSeq(s, ((Len(s) + 1) \div 2) + 1, Len(s))

\* extract.ts lines 113-129: the documents of two repositories
Documents(dateRange, prs, commits, deployments) ==
    [prData |->
        [extractedAt |-> dateRange.end, dateRange |-> dateRange,
         repositories |-> << [repo |-> "o/a", items |-> FrontHalf(prs)],
                             [repo |-> "o/b", items |-> BackHalf(prs)] >>],
     commitData |->
        [extractedAt |-> dateRange.end, dateRange |-> dateRange,
         repositories |-> << [repo |-> "o/a", items |-> FrontHalf(commits)],
                             [repo |-> "o/b", items |-> BackHalf(commits)] >>],
     deploymentData |->
        [extractedAt |-> dateRange.end, dateRange |-> dateRange,
         repositories |->
            << [repo |-> "o/a",
                items |-> [deployments |-> FrontHalf(deployments), releases |-> <<>>]],
               [repo |-> "o/b",
                items |-> [deployments |-> BackHalf(deployments), releases |-> <<>>]] >>]]

\* new Date().toISOString() at the n-th calculation
Clock(n) == "2024-02-01T00:00:0" \o IntToStr(n) \o ".000Z"

(***************************************************************************)
(* SpecClassify: one call identifyAITool(name, email).                     *)
(***************************************************************************)
ClassifyInit ==
    /\ ini = IniIdle
    /\ gh = GhIdle
    /\ fn = FnIdle
    /\ flt = FltIdle
    /\ ext = ExtIdle
    /\ met = MetIdle
    /\ cls \in {[name |-> n, email |-> e, tool |-> Pending, returned |-> FALSE] :
                    n \in Names, e \in Emails}
    /\ det = DetIdle
    /\ lastIndex = 0
    /\ prt = PrtIdle
    /\ cmt = CmtIdle

IdentifyAITool ==
    /\ ~cls.returned
    /\ cls' = [cls EXCEPT !.tool = identifyAITool(cls.name, cls.email), !.returned = TRUE]
    /\ UNCHANGED <<det, lastIndex, prt, cmt, met, ext, flt, fn, gh, ini>>

ClassifyNext == IdentifyAITool

SpecClassify == ClassifyInit /\ [][ClassifyNext]_vars

(***************************************************************************)
(* SpecDetect: calls detectAICoAuthors(message), one after another, on the *)
(* shared CO_AUTHOR_REGEX.                                                 *)
(***************************************************************************)
MaxCalls == 2

DetectInit ==
    /\ ini = IniIdle
    /\ gh = GhIdle
    /\ fn = FnIdle
    /\ flt = FltIdle
    /\ ext = ExtIdle
    /\ met = MetIdle
    /\ cls = ClsIdle
    /\ det = DetIdle
    /\ lastIndex = 0
    /\ prt = PrtIdle
    /\ cmt = CmtIdle

DetectAICoAuthors(message) ==
    LET r == detectAICoAuthors(message, lastIndex)
    IN  /\ det.calls < MaxCalls
        /\ det' = [message |-> message, coAuthors |-> r.coAuthors, calls |-> det.calls + 1]
        /\ lastIndex' = r.lastIndex
        /\ UNCHANGED <<cls, prt, cmt, met, ext, flt, fn, gh, ini>>

DetectNext == \E message \in Messages : DetectAICoAuthors(message)

SpecDetect == DetectInit /\ [][DetectNext]_vars

(***************************************************************************)
(* SpecPR: one call transformPR(raw, reviews).                             *)
(***************************************************************************)
PRInit ==
    /\ ini = IniIdle
    /\ gh = GhIdle
    /\ fn = FnIdle
    /\ flt = FltIdle
    /\ ext = ExtIdle
    /\ met = MetIdle
    /\ cls = ClsIdle
    /\ det = DetIdle
    /\ lastIndex = 0
    /\ prt \in {[raw |-> r, reviews |-> rv, pr |-> Null, returned |-> FALSE] :
                    r \in RawPRs, rv \in ReviewLists}
    /\ cmt = CmtIdle

TransformPR ==
    /\ ~prt.returned
    /\ prt' = [prt EXCEPT !.pr = transformPR(prt.raw, prt.reviews), !.returned = TRUE]
    /\ UNCHANGED <<cls, det, lastIndex, cmt, met, ext, flt, fn, gh, ini>>

PRNext == TransformPR

SpecPR == PRInit /\ [][PRNext]_vars

(***************************************************************************)
(* SpecCommit: one call transformCommit(raw).                              *)
(***************************************************************************)
CommitInit ==
    /\ ini = IniIdle
    /\ gh = GhIdle
    /\ fn = FnIdle
    /\ flt = FltIdle
    /\ ext = ExtIdle
    /\ met = MetIdle
    /\ cls = ClsIdle
    /\ det = DetIdle
    /\ lastIndex = 0
    /\ prt = PrtIdle
    /\ cmt \in {[raw |-> r, commit |-> Null, returned |-> FALSE] : r \in RawCommits}

TransformCommit ==
    /\ ~cmt.returned
    /\ cmt' = [cmt EXCEPT !.commit = transformCommit(cmt.raw, lastIndex), !.returned = TRUE]
    /\ lastIndex' = AIFields(cmt.raw.commit.message, lastIndex).lastIndex
    /\ UNCHANGED <<cls, det, prt, met, ext, flt, fn, gh, ini>>

CommitNext == TransformCommit

SpecCommit == CommitInit /\ [][CommitNext]_vars

(***************************************************************************)
(* SpecMetrics: metricsCommand has parsed the three files; calculateAllMetrics *)
(* is called on the parsed documents, and called again on the same ones.   *)
(***************************************************************************)
MetricsInit ==
    /\ ini = IniIdle
    /\ gh = GhIdle
    /\ fn = FnIdle
    /\ flt = FltIdle
    /\ ext = ExtIdle
    /\ cls = ClsIdle
    /\ det = DetIdle
    /\ lastIndex = 0
    /\ prt = PrtIdle
    /\ cmt = CmtIdle
    /\ \E dateRange \in DateRanges :
       \E np \in 0..MaxItems : \E nc \in 0..(MaxItems - np) : \E nd \in 0..(MaxItems - np - nc) :
       \E prs \in [1..np -> PRPool], commits \in [1..nc -> CommitPool],
          deployments \in [1..nd -> DeploymentPool] :
            met = [files   |-> Documents(dateRange, prs, commits, deployments),
                   docs    |-> Documents(dateRange, prs, commits, deployments),
                   reports |-> <<>>]

CalculateAllMetrics ==
    /\ Len(met.reports) < MaxRuns
    /\ met' = [met EXCEPT
                 !.docs.prData = ReviewsSortedInPlace(@),
                 !.reports = Append(@, calculateAllMetrics(met.docs.prData,
                                                           met.docs.commitData,
                                                           met.docs.deploymentData,
                                                           Clock(Len(met.reports) + 1)))]
    /\ UNCHANGED <<cls, det, lastIndex, prt, cmt, ext, flt, fn, gh, ini>>

MetricsNext == CalculateAllMetrics

SpecMetrics == MetricsInit /\ [][MetricsNext]_vars

(***************************************************************************)
(* Claims about the classifier.                                            *)
(***************************************************************************)
\* C1: identifyAITool(name, email) returns null whenever "name email" matches a
\* bot-exclusion pattern, also when a known-AI-tool pattern or a generic-AI marker
\* matches too.
C1_BotExclusionWins ==
    (cls.returned /\ \E b \in 1..Len(EXCLUDED_BOTS) :
                        RegExpTest(EXCLUDED_BOTS[b], cls.name \o " " \o cls.email))
        => cls.tool = Null

\* C1 witness: an excluded bot that also matches a known-AI-tool pattern got null.
C1_Witness ==
    /\ cls.returned
    /\ isExcludedBot(cls.name, cls.email)
    /\ KnownTool(1, cls.name, cls.email) # Null
    /\ cls.tool = Null

C2_Matches(pattern, name, email) ==
    /\ pattern.hasEmail => RegExpTest(pattern.email, email)
    /\ pattern.hasName => RegExpTest(pattern.name, name)

C2_Hits(name, email) ==
    {t \in 1..Len(AI_PATTERNS) :
        \E q \in 1..Len(AI_PATTERNS[t].patterns) :
            C2_Matches(AI_PATTERNS[t].patterns[q], name, email)}

\* C2: past the bot-exclusion gate, the result is the tool of the first table entry
\* with a matching pattern (both fields must match when both are given); 'other' only
\* when no entry matches and a generic marker matches name or email; null otherwise.
C2_FirstMatchingTool ==
    (cls.returned /\ ~isExcludedBot(cls.name, cls.email)) =>
        LET hits == C2_Hits(cls.name, cls.email)
        IN  cls.tool =
              IF hits # {}
              THEN AI_PATTERNS[CHOOSE t \in hits : \A u \in hits : t <= u].tool
              ELSE IF \E g \in 1..Len(genericAIPatterns) :
                          \/ RegExpTest(genericAIPatterns[g], cls.name)
                          \/ RegExpTest(genericAIPatterns[g], cls.email)
                   THEN "other"
                   ELSE Null

\* C2 witness: the two-field amazon-q pattern decided a call, and no one-field
\* pattern of the name or the email alone would have.
C2_Witness ==
    /\ cls.returned
    /\ cls.tool = "amazon-q"
    /\ identifyAITool(cls.name, "") = Null
    /\ identifyAITool("", cls.email) = Null

\* The (name, email) pairs of the message's Co-Authored-By lines from scan position
\* li on, in order of appearance, as the loop reads them (name trimmed, email trimmed
\* and in lower case).
RECURSIVE C3_Pairs(_, _)
C3_Pairs(message, li) ==
    LET match == RegExpExec(message, li)
    IN  IF ~match.found THEN <<>>
        ELSE <<[name |-> trim(match.name), email |-> toLowerCase(trim(match.email))]>>
             \o C3_Pairs(message, match.lastIndex)

\* One record for the first pair of each distinct lowercase (name, email), in order,
\* without those that classify to null.
RECURSIVE C3_Expected(_, _)
C3_Expected(pairs, seenPairs) ==
    IF pairs = <<>> THEN <<>>
    ELSE LET p    == Head(pairs)
             id   == <<toLowerCase(p.name), p.email>>
             tool == identifyAITool(p.name, p.email)
         IN  IF id \in seenPairs THEN C3_Expected(Tail(pairs), seenPairs)
             ELSE (IF tool = Null THEN <<>>
                   ELSE <<[name |-> p.name, email |-> p.email, tool |-> tool]>>)
                  \o C3_Expected(Tail(pairs), seenPairs \cup {id})

\* C3: detectAICoAuthors(message) returns, in order of first appearance, exactly one
\* AICoAuthor for each distinct lowercase (name, email) pair of the message's
\* Co-Authored-By lines whose classification is non-null; two different pairs are
\* never taken for duplicates of each other.
C3_OnePerDistinctPair ==
    det.calls > 0 => det.coAuthors = C3_Expected(C3_Pairs(det.message, 0), {})

(***************************************************************************)
(* Claims about the normalizers.                                           *)
(***************************************************************************)
\* C4: a PullRequest produced by transformPR has state 'merged' if and only if its
\* mergedAt is non-null, whatever the host record's state field says.
C4_MergedIffMergedAt ==
    prt.returned => (prt.pr.state = "merged" <=> prt.pr.mergedAt # Null)

\* C4 witness: a record the host calls CLOSED, with mergedAt set, came out merged.
C4_Witness ==
    /\ prt.returned
    /\ prt.raw.state = "CLOSED"
    /\ prt.pr.mergedAt # Null
    /\ prt.pr.state = "merged"

\* C5 as claimed: without mergedAt, state is 'closed' exactly when closedAt is set,
\* and 'open' in all other cases.
C5_ClosedIffClosedAt ==
    (prt.returned /\ prt.pr.mergedAt = Null) =>
        prt.pr.state = (IF prt.pr.closedAt # Null THEN "closed" ELSE "open")

\* C5 as amended: without mergedAt, state is 'closed' exactly when closedAt is set or
\* the host record's state field is 'closed', and 'open' in all other cases.
C5_ClosedIffClosedAtOrRawClosed ==
    (prt.returned /\ prt.pr.mergedAt = Null) =>
        prt.pr.state = (IF prt.pr.closedAt # Null \/ prt.raw.state = "closed"
                        THEN "closed" ELSE "open")

\* C5 witness: a record with state 'closed' and neither mergedAt nor closedAt came
\* out closed.
C5_Witness ==
    /\ prt.returned
    /\ prt.pr.mergedAt = Null
    /\ prt.pr.closedAt = Null
    /\ prt.raw.state = "closed"
    /\ prt.pr.state = "closed"

\* C6: a commit produced by transformCommit has isAIAssisted true if and only if its
\* aiCoAuthors is non-empty or hasAIIndicators holds of the full commit message.
C6_AIAssistedIff ==
    cmt.returned =>
        (cmt.commit.isAIAssisted <=>
            (cmt.commit.aiCoAuthors # <<>> \/ hasAIIndicators(cmt.raw.commit.message)))

\* C6 witness: a commit without AI co-authors is AI-assisted by an indicator that is
\* not in the first line of its message.
C6_Witness ==
    /\ cmt.returned
    /\ cmt.commit.aiCoAuthors = <<>>
    /\ cmt.commit.isAIAssisted
    /\ ~hasAIIndicators(cmt.commit.message)

(***************************************************************************)
(* Claims about the metrics calculator.                                    *)
(***************************************************************************)
\* C7: calculateAllMetrics leaves its input documents unchanged: after it returns,
\* every PR, commit and deployment record, the order of each PR's reviews list
\* included, is as it was before the call.
C7_InputsUnchanged == met.docs = met.files

\* C8: calculating twice on identical documents yields two reports equal in every
\* field except calculatedAt.
C8_SameReportTwice ==
    \A i, j \in 1..Len(met.reports) :
        [met.reports[i] EXCEPT !.calculatedAt = ""] = [met.reports[j] EXCEPT !.calculatedAt = ""]

\* C8 witness: two reports with different calculatedAt were calculated from documents
\* holding a review list that the first calculation found out of order, and a time to
\* first review was reported.
C8_Witness ==
    /\ Len(met.reports) = 2
    /\ met.reports[1].calculatedAt # met.reports[2].calculatedAt
    /\ met.docs # met.files
    /\ met.reports[2].pullRequests.timeToFirstReview.medianHours.v > 0

\* the ratios, averages, medians, frequencies and percentages of a report
C9_Numbers(r) ==
    { r.dora.leadTimeForChanges.averageHours, r.dora.leadTimeForChanges.medianHours,
      r.dora.leadTimeForChanges.p90Hours,
      r.dora.deploymentFrequency.perDay, r.dora.deploymentFrequency.perWeek,
      r.dora.changeFailureRate.percentage,
      r.pullRequests.timeToFirstReview.averageHours,
      r.pullRequests.timeToFirstReview.medianHours,
      r.pullRequests.timeToMerge.averageHours, r.pullRequests.timeToMerge.medianHours,
      r.commits.frequency.perDay, r.commits.frequency.perWeek,
      r.ai.summary.aiRatio }
    \cup {r.ai.byUser[i].ratio : i \in 1..Len(r.ai.byUser)}
    \cup {r.ai.trend[i].ratio : i \in 1..Len(r.ai.trend)}

\* C9: calculateAllMetrics never produces NaN or Infinity, and where the denominator
\* is zero (no deployments, no commits, no merged PRs, a date range whose start
\* equals its end) the ratio, average, median, frequency or percentage is 0.
C9_NeverNaNOrInfinity ==
    \A i \in 1..Len(met.reports) :
        /\ \A n \in C9_Numbers(met.reports[i]) : n.k = "finite"
        /\ RangeDays(met.files.prData.dateRange) = 0 =>
              /\ met.reports[i].dora.deploymentFrequency.perDay = Num(0)
              /\ met.reports[i].dora.deploymentFrequency.perWeek = Num(0)
              /\ met.reports[i].commits.frequency.perDay = Num(0)
              /\ met.reports[i].commits.frequency.perWeek = Num(0)
        /\ met.reports[i].summary.totalDeployments = 0 =>
              met.reports[i].dora.changeFailureRate.percentage = Num(0)
        /\ met.reports[i].summary.totalCommits = 0 =>
              met.reports[i].ai.summary.aiRatio = Num(0)
        /\ met.reports[i].pullRequests.throughput.merged = 0 =>
              /\ met.reports[i].dora.leadTimeForChanges.averageHours = Num(0)
              /\ met.reports[i].dora.leadTimeForChanges.medianHours = Num(0)
              /\ met.reports[i].pullRequests.timeToMerge.averageHours = Num(0)
              /\ met.reports[i].pullRequests.timeToFirstReview.averageHours = Num(0)

\* the smallest element of a non-empty set of integers
C10_Min(S) == CHOOSE x \in S : \A y \in S : x <= y

\* for each merged PR with at least one review, in order, the time from createdAt to
\* the earliest submittedAt of its reviews
C10_ReviewTimes(prs) ==
    LET reviewed == SelectSeq(prs, LAMBDA pr : IsMerged(pr) /\ Len(pr.reviews) > 0)
    IN  [i \in 1..Len(reviewed) |->
            C10_Min({getTime(reviewed[i].reviews[k].submittedAt) :
                        k \in 1..Len(reviewed[i].reviews)})
            - getTime(reviewed[i].createdAt)]

\* C10: timeToFirstReview is aggregated over the merged PRs with at least one review,
\* each contributing the hours from createdAt to its earliest review; exactly the
\* negative values are left out, so a value of zero is included.
C10_NegativeLeftOutZeroIncluded ==
    \A i \in 1..Len(met.reports) :
        /\ met.reports[i].pullRequests.timeToFirstReview.averageHours =
              Num(calculateStats(SelectSeq(C10_ReviewTimes(ItemsOf(met.files.prData.repositories)),
                                           LAMBDA t : t >= 0)).average)
        /\ met.reports[i].pullRequests.timeToFirstReview.medianHours =
              Num(calculateStats(SelectSeq(C10_ReviewTimes(ItemsOf(met.files.prData.repositories)),
                                           LAMBDA t : t >= 0)).median)

(***************************************************************************)
(* Inputs of the extract command: the repositories, each named once, and   *)
(* what the host answers for each.                                         *)
(***************************************************************************)
MaxRepos == 2

RepoNames == <<"o/a", "o/b", "o/c", "o/d">>
RepoIndex(repo) == CHOOSE i \in 1..Len(RepoNames) : RepoNames[i] = repo

DefaultSettings ==
    [defaultDateRange |-> 30, deploymentBranch |-> "main", excludeAuthors |-> <<>>,
     excludeLabels |-> <<>>, excludeDraftPRs |-> TRUE]

MkRawPR(number, author, isDraft, labels) ==
    [number |-> number, title |-> "Add parser", state |-> "OPEN", isDraft |-> isDraft,
     createdAt |-> "2024-01-05T09:00:00Z", updatedAt |-> "2024-01-06T09:00:00Z",
     mergedAt |-> Null, closedAt |-> Null,
     additions |-> Some(12), deletions |-> Some(3), changedFiles |-> Some(2),
     labels |-> labels, commits |-> None, comments |-> None,
     baseRefName |-> "main", headRefName |-> "feature/parser",
     url |-> "https://github.com/o/r/pull/" \o IntToStr(number), author |-> author]

MkRawCommit(sha, login, name, message) ==
    [sha |-> sha,
     commit |-> [message |-> message,
                 author |-> [name |-> name, email |-> "dev@example.com",
                             date |-> "2024-01-05T10:00:00Z"]],
     author |-> login,
     stats |-> [additions |-> Some(10), deletions |-> Some(0)],
     files |-> Some(2),
     parents |-> <<"aaaa">>]

MkRawDeployment(id, state, created_at) ==
    [id |-> id, environment |-> "production", state |-> state, created_at |-> created_at,
     updated_at |-> created_at, sha |-> "0123456789abcdef0123456789abcdef01234567",
     ref |-> "main", creator |-> "alice", description |-> Null]

MkRawRelease(id, draft) ==
    [id |-> id, tag_name |-> "v1.0." \o IntToStr(id), name |-> "", draft |-> draft,
     created_at |-> "2024-01-05T12:00:00Z", published_at |-> "2024-01-05T13:00:00Z",
     author |-> "alice", prerelease |-> FALSE, target_commitish |-> "main"]

\* the reviews of PR n: one review for odd n, a rejected fetch for even n
HostReviews ==
    [n \in 1..(10 * Len(RepoNames) + 2) |->
        IF n % 2 = 1
        THEN Ok(<<[user |-> "bob", state |-> "APPROVED", submitted_at |-> "2024-01-05T11:00:00Z"]>>)
        ELSE Fail]

HostPRs(repo) ==
    Ok(<<MkRawPR(10 * RepoIndex(repo) + 1, "alice", FALSE, <<>>),
         MkRawPR(10 * RepoIndex(repo) + 2, Null, FALSE, <<"wip">>)>>)

HostCommits(repo) ==
    Ok(<<MkRawCommit(IntToStr(RepoIndex(repo)) \o "123456789abcdef", "alice", "Alice A",
                     "Add x\n\nCo-Authored-By: Claude <noreply@anthropic.com>")>>)

HostDeployments(repo) ==
    Ok(<<MkRawDeployment(RepoIndex(repo), "SUCCESS", "2024-01-05T12:00:00Z"),
         MkRawDeployment(10 + RepoIndex(repo), "failure", "2023-12-25T12:00:00Z")>>)

HostReleases(repo) == Ok(<<MkRawRelease(RepoIndex(repo), FALSE)>>)

\* what the host may answer for one repository
HostAnswers(repo) ==
    {[accessible |-> a, prs |-> p, reviews |-> HostReviews, commits |-> c,
      deployments |-> d, releases |-> HostReleases(repo)] :
        a \in BOOLEAN, p \in {Fail, HostPRs(repo)}, c \in {Fail, HostCommits(repo)},
        d \in {Fail, HostDeployments(repo)}}

ExtractNow == "2024-01-08T00:00:00Z"
ExtractDays == 7

(***************************************************************************)
(* SpecExtract: one run of extractCommand.                                 *)
(***************************************************************************)
ExtractInit ==
    /\ ini = IniIdle
    /\ gh = GhIdle
    /\ fn = FnIdle
    /\ cls = ClsIdle
    /\ det = DetIdle
    /\ lastIndex = 0
    /\ prt = PrtIdle
    /\ cmt = CmtIdle
    /\ met = MetIdle
    /\ flt = FltIdle
    /\ \E host \in [1..MaxRepos -> UNION {HostAnswers(RepoNames[i]) : i \in 1..MaxRepos}] :
        /\ \A i \in 1..MaxRepos : host[i] \in HostAnswers(RepoNames[i])
        /\ ext = [pc |-> "start", repos |-> SubSeq(RepoNames, 1, MaxRepos), host |-> host,
                  settings |-> DefaultSettings, accessibleRepos |-> <<>>, at |-> 1,
                  docs |-> EmptyDocuments(ExtractNow, ExtractDays), files |-> <<>>]

\* The repositories of line 102, were the inaccessible ones not filtered out.
AccessibleReposUnfiltered(repos, host) == repos

\* lines 86-102: the repositories whose checkRepoAccess resolved to true
AccessibleRepos(repos, host) ==
    SelectSeq(repos, LAMBDA repo : host[RepoIndex(repo)].accessible)

\* lines 84-129: the access check; no accessible repository ends the run with exit(1)
CheckAccess ==
    /\ ext.pc = "start"
    /\ ext' = [ext EXCEPT
                 !.accessibleRepos = AccessibleRepos(ext.repos, ext.host),
                 !.pc = IF \E i \in 1..Len(ext.repos) : ext.host[i].accessible
                        THEN "extract" ELSE "exit1"]
    /\ UNCHANGED <<cls, det, lastIndex, prt, cmt, met, flt, fn, gh, ini>>

\* lines 132-187: one repository's PRs, commits and deployments
ExtractRepository ==
    /\ ext.pc = "extract"
    /\ ext.at <= Len(ext.accessibleRepos)
    /\ ext' = [ext EXCEPT
                 !.docs = ExtractedFrom(ext.docs, ext.accessibleRepos[ext.at],
                                        ext.host[RepoIndex(ext.accessibleRepos[ext.at])],
                                        ext.settings, ExtractNow, ExtractDays),
                 !.at = @ + 1]
    /\ UNCHANGED <<cls, det, lastIndex, prt, cmt, met, flt, fn, gh, ini>>

\* lines 190-203: the AI summary and the three files
WriteOutput ==
    /\ ext.pc = "extract"
    /\ ext.at > Len(ext.accessibleRepos)
    /\ ext' = [ext EXCEPT
                 !.docs.commitData = WithAISummary(@),
                 !.files = <<[ext.docs EXCEPT !.commitData = WithAISummary(@)]>>,
                 !.pc = "done"]
    /\ UNCHANGED <<cls, det, lastIndex, prt, cmt, met, flt, fn, gh, ini>>

ExtractNext == CheckAccess \/ ExtractRepository \/ WriteOutput

SpecExtract == ExtractInit /\ [][ExtractNext]_vars

(***************************************************************************)
(* Claims about the extract command and the extractors.                    *)
(***************************************************************************)
\* the collections recorded under repo in a document's repositories
C11_Recorded(repositories, repo) ==
    {repositories[i].items : i \in {j \in 1..Len(repositories) : repositories[j].repo = repo}}

\* what the extractions of one repository returned, a failed one counting as empty
C11_ReturnedPRs(answer, settings) ==
    IF answer.prs.ok THEN extractPRs(answer.prs, answer.reviews, settings).items ELSE <<>>

C11_ReturnedCommits(answer, settings) ==
    IF answer.commits.ok THEN extractCommits(answer.commits, settings) ELSE <<>>

C11_ReturnedDeployments(answer) ==
    IF answer.deployments.ok
    THEN fetchDeployments(answer.deployments, daysAgo(ExtractDays, ExtractNow), ExtractNow)
    ELSE <<>>

\* the three documents record, for the k-th accessible repository, what was returned
C11_RecordedAsReturned(docs, k) ==
    /\ C11_Recorded(docs.prData.repositories, ext.accessibleRepos[k])
         = {C11_ReturnedPRs(ext.host[RepoIndex(ext.accessibleRepos[k])], ext.settings)}
    /\ C11_Recorded(docs.commitData.repositories, ext.accessibleRepos[k])
         = {C11_ReturnedCommits(ext.host[RepoIndex(ext.accessibleRepos[k])], ext.settings)}
    /\ {c.deployments : c \in C11_Recorded(docs.deploymentData.repositories,
                                            ext.accessibleRepos[k])}
         = {C11_ReturnedDeployments(ext.host[RepoIndex(ext.accessibleRepos[k])])}

\* C11: when extracting one repository's PRs, commits or deployments fails, that
\* repository's collection of that kind is recorded as empty, the collections of every
\* other repository and kind are what their extractions returned, and the run still
\* writes prs.json, commits.json and deployments.json.
C11_FailureIsolated ==
    /\ ext.pc \in {"extract", "done"} =>
          \A k \in 1..(ext.at - 1) : C11_RecordedAsReturned(ext.docs, k)
    /\ ext.pc = "exit1" => \A i \in 1..Len(ext.repos) : ~ext.host[i].accessible
    /\ ext.pc = "done" =>
          /\ Len(ext.files) = 1
          /\ \A k \in 1..Len(ext.accessibleRepos) : C11_RecordedAsReturned(ext.files[1], k)

\* C11 witness: the files are written after a run over two repositories in which the
\* PRs of the first and the deployments of the second failed, the others returning
\* records.
C11_Witness ==
    /\ ext.pc = "done"
    /\ Len(ext.files) = 1
    /\ Len(ext.accessibleRepos) = 2
    /\ ~ext.host[1].prs.ok /\ ext.host[2].prs.ok
    /\ ext.host[1].deployments.ok /\ ~ext.host[2].deployments.ok
    /\ ext.files[1].prData.repositories[1].items = <<>>
    /\ Len(ext.files[1].prData.repositories[2].items) > 0
    /\ Len(ext.files[1].deploymentData.repositories[1].items.deployments) > 0
    /\ ext.files[1].deploymentData.repositories[2].items.deployments = <<>>

(***************************************************************************)
(* SpecFilter: extractPRs and extractCommits called with some settings on  *)
(* what the host returned.                                                 *)
(***************************************************************************)
MaxRaw == 2

FilterSettings ==
    {[defaultDateRange |-> 30, deploymentBranch |-> "main", excludeAuthors |-> ea,
      excludeLabels |-> el, excludeDraftPRs |-> dr] :
        ea \in {<<>>, <<"bot">>, <<"unknown", "alice">>},
        el \in {<<>>, <<"wip">>, <<"wip", "skip">>},
        dr \in BOOLEAN}

FilterRawPRs ==
    { MkRawPR(1, "alice", FALSE, <<>>),
      MkRawPR(2, "alice", TRUE, <<>>),
      MkRawPR(3, "bot", FALSE, <<>>),
      MkRawPR(4, Null, FALSE, <<"wip">>),
      MkRawPR(5, "alice", FALSE, <<"bug", "skip">>),
      MkRawPR(6, "bot", TRUE, <<"wip", "bug">>) }

FilterRawCommits ==
    << MkRawCommit("a1", "alice", "Alice A", "Fix a"),
       MkRawCommit("b2", "bot", "Build Bot", "Fix b"),
       MkRawCommit("c3", Null, "bot", "Fix c"),
       MkRawCommit("d4", Null, "Carol C", "Fix d") >>

FilterInit ==
    /\ ini = IniIdle
    /\ gh = GhIdle
    /\ fn = FnIdle
    /\ cls = ClsIdle
    /\ det = DetIdle
    /\ lastIndex = 0
    /\ prt = PrtIdle
    /\ cmt = CmtIdle
    /\ met = MetIdle
    /\ ext = ExtIdle
    /\ \E settings \in FilterSettings : \E n \in 0..MaxRaw : \E rawPRs \in [1..n -> FilterRawPRs] :
        flt = [pc |-> "called", settings |-> settings, rawPRs |-> Ok(rawPRs),
               rawCommits |-> Ok(FilterRawCommits), prs |-> <<>>, commits |-> <<>>,
               done |-> {}]

ExtractPRs ==
    /\ flt.pc = "called"
    /\ "prs" \notin flt.done
    /\ flt' = [flt EXCEPT !.prs = extractPRs(flt.rawPRs, HostReviews, flt.settings).items,
                          !.done = @ \cup {"prs"}]
    /\ UNCHANGED <<cls, det, lastIndex, prt, cmt, met, ext, fn, gh, ini>>

ExtractCommits ==
    /\ flt.pc = "called"
    /\ "commits" \notin flt.done
    /\ flt' = [flt EXCEPT !.commits = extractCommits(flt.rawCommits, flt.settings),
                          !.done = @ \cup {"commits"}]
    /\ UNCHANGED <<cls, det, lastIndex, prt, cmt, met, ext, fn, gh, ini>>

FilterNext == ExtractPRs \/ ExtractCommits

SpecFilter == FilterInit /\ [][FilterNext]_vars

\* the subsequence of raw PRs that match none of the settings' exclusions
C12_PRsToKeep(rawPRs, settings) ==
    SelectSeq(rawPRs, LAMBDA raw :
        /\ ~\E i \in 1..Len(settings.excludeAuthors) :
                settings.excludeAuthors[i] = (IF raw.author = Null THEN "unknown" ELSE raw.author)
        /\ {raw.labels[i] : i \in 1..Len(raw.labels)}
             \cap {settings.excludeLabels[i] : i \in 1..Len(settings.excludeLabels)} = {}
        /\ ~(settings.excludeDraftPRs /\ raw.isDraft))

C12_CommitsToKeep(rawCommits, settings) ==
    SelectSeq(rawCommits, LAMBDA raw :
        ~\E i \in 1..Len(settings.excludeAuthors) :
            settings.excludeAuthors[i]
              = (IF raw.author = Null THEN raw.commit.author.name ELSE raw.author))

\* C12: no PR returned by extractPRs has an author in excludeAuthors or a label in
\* excludeLabels, none is a draft when excludeDraftPRs is true, no commit returned by
\* extractCommits has an author in excludeAuthors, and every fetched raw record that
\* matches none of these exclusions is returned.
C12_ExclusionsApplied ==
    /\ "prs" \in flt.done =>
        /\ \A i \in 1..Len(flt.prs) :
            /\ ~Includes(flt.settings.excludeAuthors, flt.prs[i].author)
            /\ \A j \in 1..Len(flt.prs[i].labels) :
                    ~Includes(flt.settings.excludeLabels, flt.prs[i].labels[j])
            /\ ~(flt.settings.excludeDraftPRs /\ flt.prs[i].isDraft)
        /\ [i \in 1..Len(flt.prs) |-> flt.prs[i].number]
             = [i \in 1..Len(C12_PRsToKeep(flt.rawPRs.items, flt.settings)) |->
                    C12_PRsToKeep(flt.rawPRs.items, flt.settings)[i].number]
    /\ "commits" \in flt.done =>
        /\ \A i \in 1..Len(flt.commits) :
                ~Includes(flt.settings.excludeAuthors, flt.commits[i].author)
        /\ [i \in 1..Len(flt.commits) |-> flt.commits[i].sha]
             = [i \in 1..Len(C12_CommitsToKeep(flt.rawCommits.items, flt.settings)) |->
                    C12_CommitsToKeep(flt.rawCommits.items, flt.settings)[i].sha]

\* C12 witness: with two excluded labels, drafts excluded and the author 'unknown'
\* excluded, one of two fetched PRs was dropped and one returned, and commits were
\* dropped by login and by commit author name.
C12_Witness ==
    /\ flt.pc = "called"
    /\ flt.done = {"prs", "commits"}
    /\ Len(flt.settings.excludeLabels) = 2
    /\ Len(flt.rawPRs.items) = 2
    /\ Len(flt.prs) = 1
    /\ Len(flt.commits) \in 1..3

(***************************************************************************)
(* Claims about the AI metrics and the contributors of a report.           *)
(***************************************************************************)
\* the commits of the documents a report was calculated from, flattened
ReportCommits == ItemsOf(met.files.commitData.repositories)

\* the positions in cs of the AI-assisted commits that carry a co-author of tool
C13_Carriers(cs, tool) ==
    {i \in 1..Len(cs) : cs[i].isAIAssisted
                        /\ \E k \in 1..Len(cs[i].aiCoAuthors) : cs[i].aiCoAuthors[k].tool = tool}

\* C13: each ai.byTool entry gives, for one tool, commits = the number of AI-assisted
\* commits that carry a co-author of that tool and users = the number of distinct
\* authors of those commits; so commits <= ai.summary.totalAICommits and users <=
\* ai.summary.usersWithAI, and the entries are in non-increasing order of commits.
C13_ByToolCounts ==
    \A r \in 1..Len(met.reports) :
        LET byTool == met.reports[r].ai.byTool
        IN  /\ \A i \in 1..Len(byTool) :
                /\ byTool[i].commits = Cardinality(C13_Carriers(ReportCommits, byTool[i].tool))
                /\ byTool[i].users
                     = Cardinality({ReportCommits[c].author :
                                        c \in C13_Carriers(ReportCommits, byTool[i].tool)})
                /\ byTool[i].commits <= met.reports[r].ai.summary.totalAICommits
                /\ byTool[i].users <= met.reports[r].ai.summary.usersWithAI
            /\ \A i, j \in 1..Len(byTool) : i < j => byTool[i].commits >= byTool[j].commits

\* the co-author tools of author's AI-assisted commits, in the order encountered
RECURSIVE C14_Tags(_, _)
C14_Tags(cs, author) ==
    IF Len(cs) = 0 THEN <<>>
    ELSE (IF Head(cs).author = author /\ Head(cs).isAIAssisted
          THEN [k \in 1..Len(Head(cs).aiCoAuthors) |-> Head(cs).aiCoAuthors[k].tool]
          ELSE <<>>) \o C14_Tags(Tail(cs), author)

C14_Count(tags, tool) == Cardinality({k \in 1..Len(tags) : tags[k] = tool})
C14_First(tags, tool) == CHOOSE k \in 1..Len(tags) : tags[k] = tool /\ \A m \in 1..(k - 1) : tags[m] # tool

\* tool has the largest count in tags, and of the tools with that count it comes first
C14_IsPrimary(tags, tool) ==
    /\ \E k \in 1..Len(tags) : tags[k] = tool
    /\ \A k \in 1..Len(tags) :
        \/ C14_Count(tags, tags[k]) < C14_Count(tags, tool)
        \/ /\ C14_Count(tags, tags[k]) = C14_Count(tags, tool)
           /\ C14_First(tags, tool) <= C14_First(tags, tags[k])

\* C14: for each ai.byUser entry, primaryTool is the tool with the largest co-author
\* count among that author's AI-assisted commits, the tool encountered first winning a
\* tie, and ai.byUser is ordered by non-increasing aiCommits.
C14_PrimaryTool ==
    \A r \in 1..Len(met.reports) :
        LET byUser == met.reports[r].ai.byUser
        IN  /\ \A i \in 1..Len(byUser) :
                IF C14_Tags(ReportCommits, byUser[i].author) = <<>>
                THEN byUser[i].primaryTool = Null
                ELSE C14_IsPrimary(C14_Tags(ReportCommits, byUser[i].author),
                                   byUser[i].primaryTool)
            /\ \A i, j \in 1..Len(byUser) : i < j => byUser[i].aiCommits >= byUser[j].aiCommits

\* C14 witness: an author's two tools tie and the one encountered first is reported.
C14_Witness ==
    /\ Len(met.reports) > 0
    /\ \E i \in 1..Len(met.reports[1].ai.byUser) :
        LET tags == C14_Tags(ReportCommits, met.reports[1].ai.byUser[i].author)
        IN  /\ Len(tags) = 2
            /\ tags[1] # tags[2]
            /\ met.reports[1].ai.byUser[i].primaryTool = tags[1]

(***************************************************************************)
(* SpecContributors: calculateAllMetrics on commits of nine authors and    *)
(* more: each author commits once, in turn, then some commit again.        *)
(***************************************************************************)
TopN == 10
MaxAuthors == 12
MaxExtra == 2

AuthorName(i) == "dev" \o IntToStr(i)

\* one commit of each of authors 1..n, then the commits of extra
ContributorCommits(n, extra) ==
    [i \in 1..(n + Len(extra)) |->
        MkCommit(AuthorName(IF i <= n THEN i ELSE extra[i - n]), "2024-01-02T10:00:00Z",
                 <<>>, FALSE)]

ContributorsInit ==
    /\ ini = IniIdle
    /\ gh = GhIdle
    /\ fn = FnIdle
    /\ cls = ClsIdle
    /\ det = DetIdle
    /\ lastIndex = 0
    /\ prt = PrtIdle
    /\ cmt = CmtIdle
    /\ ext = ExtIdle
    /\ flt = FltIdle
    /\ \E n \in (TopN - 1)..MaxAuthors : \E k \in 0..MaxExtra :
       \E extra \in [1..k -> {1, n - 1, n}] : \E dateRange \in DateRanges :
            met = [files   |-> Documents(dateRange, <<>>, ContributorCommits(n, extra), <<>>),
                   docs    |-> Documents(dateRange, <<>>, ContributorCommits(n, extra), <<>>),
                   reports |-> <<>>]

SpecContributors == ContributorsInit /\ [][MetricsNext]_vars

\* how many of the commits cs are by author
C15_Count(cs, author) == Cardinality({i \in 1..Len(cs) : cs[i].author = author})

\* the position of author's first commit in cs
C15_First(cs, author) ==
    CHOOSE i \in 1..Len(cs) : cs[i].author = author /\ \A j \in 1..(i - 1) : cs[j].author # author

\* C15: commits.contributors.top lists at most 10 authors with their commit counts in
\* non-increasing order, authors with equal counts in the order of their first commit
\* in the flattened input; every author left out has a count no greater than that of
\* any listed author, and contributors.total is the number of distinct authors.
C15_TopContributors ==
    \A r \in 1..Len(met.reports) :
        LET top     == met.reports[r].commits.contributors.top
            authors == {ReportCommits[i].author : i \in 1..Len(ReportCommits)}
            listed  == {top[i].author : i \in 1..Len(top)}
        IN  /\ Len(top) = (IF Cardinality(authors) < TopN THEN Cardinality(authors) ELSE TopN)
            /\ Cardinality(listed) = Len(top)
            /\ listed \subseteq authors
            /\ \A i \in 1..Len(top) : top[i].commits = C15_Count(ReportCommits, top[i].author)
            /\ \A i, j \in 1..Len(top) : i < j =>
                \/ top[i].commits > top[j].commits
                \/ /\ top[i].commits = top[j].commits
                   /\ C15_First(ReportCommits, top[i].author)
                        < C15_First(ReportCommits, top[j].author)
            /\ \A a \in authors \ listed : \A i \in 1..Len(top) :
                    C15_Count(ReportCommits, a) <= top[i].commits
            /\ met.reports[r].commits.contributors.total = Cardinality(authors)

\* C15 witness: of twelve authors ten are listed; the twelfth to commit, with two
\* commits, is listed second, and the tenth and eleventh are left out.
C15_Witness ==
    /\ Len(met.reports) > 0
    /\ met.reports[1].commits.contributors.total = 12
    /\ Len(met.reports[1].commits.contributors.top) = TopN
    /\ met.reports[1].commits.contributors.top[1] = [author |-> AuthorName(1), commits |-> 2]
    /\ met.reports[1].commits.contributors.top[2] = [author |-> AuthorName(12), commits |-> 2]
    /\ \A i \in 1..TopN : met.reports[1].commits.contributors.top[i].author # AuthorName(10)

\* the calendar dates of the commits cs
C16_Dates(cs) == {DatePart(cs[i].committedAt) : i \in 1..Len(cs)}

\* C16: ai.trend has exactly one entry per distinct calendar date (the part of
\* committedAt before 'T') among all commits, in strictly ascending date order; each
\* entry has aiCommits <= totalCommits, and over all entries totalCommits sums to
\* ai.summary.totalCommits and aiCommits sums to ai.summary.totalAICommits.
C16_Trend ==
    \A r \in 1..Len(met.reports) :
        LET trend   == met.reports[r].ai.trend
            summary == met.reports[r].ai.summary
        IN  /\ {trend[i].date : i \in 1..Len(trend)} = C16_Dates(ReportCommits)
            /\ Len(trend) = Cardinality(C16_Dates(ReportCommits))
            /\ \A i \in 1..(Len(trend) - 1) : DateKey(trend[i].date) < DateKey(trend[i + 1].date)
            /\ \A i \in 1..Len(trend) : trend[i].aiCommits <= trend[i].totalCommits
            /\ SumSeq([i \in 1..Len(trend) |-> trend[i].totalCommits]) = summary.totalCommits
            /\ SumSeq([i \in 1..Len(trend) |-> trend[i].aiCommits]) = summary.totalAICommits

\* C16 witness: two commits, the first of the later date and only the second
\* AI-assisted, give a trend of two dates with the earlier date first.
C16_Witness ==
    /\ Len(met.reports) > 0
    /\ Len(ReportCommits) = 2
    /\ DatePart(ReportCommits[1].committedAt) = "2024-01-02"
    /\ DatePart(ReportCommits[2].committedAt) = "2024-01-01"
    /\ Len(met.reports[1].ai.trend) = 2
    /\ met.reports[1].ai.trend[1].date = "2024-01-01"
    /\ met.reports[1].ai.trend[1].aiCommits = 1
    /\ met.reports[1].ai.trend[2].aiCommits = 0

(***************************************************************************)
(* SpecStats: calculateStats on sequences of durations (hours, in seconds).*)
(***************************************************************************)
MaxValues == 3

\* -1 h, 0, 0.5 h, 3700 s = 1.03 h, 4000 s = 1.11 h, 2.5 h, 10 h
StatValues == {0 - 3600, 0, 1800, 3700, 4000, 9000, 36000}

StatsInit ==
    /\ ini = IniIdle
    /\ gh = GhIdle
    /\ cls = ClsIdle
    /\ det = DetIdle
    /\ lastIndex = 0
    /\ prt = PrtIdle
    /\ cmt = CmtIdle
    /\ met = MetIdle
    /\ ext = ExtIdle
    /\ flt = FltIdle
    /\ \E n \in 0..MaxValues : \E values \in [1..n -> StatValues] :
        fn = [pc |-> "stats", args |-> values, values |-> values,
              result |-> [average |-> 0, median |-> 0, p90 |-> 0], returned |-> FALSE]

CalculateStats ==
    /\ fn.pc = "stats"
    /\ ~fn.returned
    /\ fn' = [fn EXCEPT !.values = ValuesAfterCalculateStats(@),
                        !.result = calculateStats(fn.values),
                        !.returned = TRUE]
    /\ UNCHANGED <<cls, det, lastIndex, prt, cmt, met, ext, flt, gh, ini>>

StatsNext == CalculateStats

SpecStats == StatsInit /\ [][StatsNext]_vars

\* the arguments of the call in ascending order, and their number
C17_Sorted == SortByKeys(fn.args, fn.args)
C17_N == Len(fn.args)

\* hours in seconds as hours in tenths, rounded: Number(x.toFixed(1))
C17_Round1(seconds) == RoundDiv(seconds * 10, SecondsPerHour)

\* C17 as stated: calculateStats returns {average: 0, median: 0, p90: 0} for an empty
\* sequence; for n >= 1 numbers, median is the element at index floor(n/2) and p90 the
\* element at index floor(0.9 n) of the ascending sort, both indices being < n, so that
\* min <= median <= p90 <= max; the input sequence itself is not reordered.
C17_MedianAndP90AreElements ==
    fn.pc = "stats" /\ fn.returned =>
        /\ fn.values = fn.args
        /\ C17_N = 0 => fn.result = [average |-> 0, median |-> 0, p90 |-> 0]
        /\ C17_N >= 1 =>
            /\ C17_N \div 2 < C17_N
            /\ (9 * C17_N) \div 10 < C17_N
            /\ fn.result.median * SecondsPerHour = C17_Sorted[(C17_N \div 2) + 1] * 10
            /\ fn.result.p90 * SecondsPerHour = C17_Sorted[((9 * C17_N) \div 10) + 1] * 10
            /\ C17_Sorted[1] * 10 <= fn.result.median * SecondsPerHour
            /\ fn.result.median <= fn.result.p90
            /\ fn.result.p90 * SecondsPerHour <= C17_Sorted[C17_N] * 10

\* C17 amended: median and p90 are those elements rounded to one decimal, so that
\* min rounded <= median <= p90 <= max rounded, each within 0.05 of its element.
C17_MedianAndP90AreRoundedElements ==
    fn.pc = "stats" /\ fn.returned =>
        /\ fn.values = fn.args
        /\ C17_N = 0 => fn.result = [average |-> 0, median |-> 0, p90 |-> 0]
        /\ C17_N >= 1 =>
            /\ C17_N \div 2 < C17_N
            /\ (9 * C17_N) \div 10 < C17_N
            /\ fn.result.median = C17_Round1(C17_Sorted[(C17_N \div 2) + 1])
            /\ fn.result.p90 = C17_Round1(C17_Sorted[((9 * C17_N) \div 10) + 1])
            /\ C17_Round1(C17_Sorted[1]) <= fn.result.median
            /\ fn.result.median <= fn.result.p90
            /\ fn.result.p90 <= C17_Round1(C17_Sorted[C17_N])
            /\ 20 * C17_Sorted[1] - SecondsPerHour <= 2 * fn.result.median * SecondsPerHour
            /\ 2 * fn.result.p90 * SecondsPerHour <= 20 * C17_Sorted[C17_N] + SecondsPerHour

\* C17 witness: calculateStats([10 h, 4000 s, 0.5 h]) has returned median 1.1 (the
\* middle element 1.11 h rounded) and p90 10.0, the arguments still in the order given.
C17_Witness ==
    /\ fn.pc = "stats"
    /\ fn.returned
    /\ fn.args = <<36000, 4000, 1800>>
    /\ fn.values = <<36000, 4000, 1800>>
    /\ fn.result.median = 11
    /\ fn.result.p90 = 100

(***************************************************************************)
(* SpecSizes: calculateSizeDistribution on pull requests whose sizes lie   *)
(* on and next to the bucket boundaries.                                   *)
(***************************************************************************)
MaxSized == 2

\* <<additions, deletions>>: sizes 0, 9, 10, 99, 100, 499, 500, 999, 1000, 2500
SizePairs ==
    { <<0, 0>>, <<5, 4>>, <<10, 0>>, <<90, 9>>, <<99, 1>>, <<400, 99>>, <<250, 250>>,
      <<0, 999>>, <<500, 500>>, <<2000, 500>> }

SizedPR(pair) ==
    [MkPR(1, "open", Null, Null, pair[1], <<>>) EXCEPT !.deletions = pair[2]]

SizesInit ==
    /\ ini = IniIdle
    /\ gh = GhIdle
    /\ cls = ClsIdle
    /\ det = DetIdle
    /\ lastIndex = 0
    /\ prt = PrtIdle
    /\ cmt = CmtIdle
    /\ met = MetIdle
    /\ ext = ExtIdle
    /\ flt = FltIdle
    /\ \E n \in 0..MaxSized : \E pairs \in [1..n -> SizePairs] :
        fn = [pc |-> "sizes", prs |-> [i \in 1..n |-> SizedPR(pairs[i])],
              result |-> [b \in {"xs", "s", "m", "l", "xl"} |-> 0], returned |-> FALSE]

CalculateSizeDistribution ==
    /\ fn.pc = "sizes"
    /\ ~fn.returned
    /\ fn' = [fn EXCEPT !.result = calculateSizeDistribution(fn.prs), !.returned = TRUE]
    /\ UNCHANGED <<cls, det, lastIndex, prt, cmt, met, ext, flt, gh, ini>>

SizesNext == CalculateSizeDistribution

SpecSizes == SizesInit /\ [][SizesNext]_vars

\* the number of the call's PRs whose size additions + deletions is in lo..(hi - 1)
C18_Between(lo, hi) ==
    Cardinality({i \in 1..Len(fn.prs) :
                    /\ lo <= fn.prs[i].additions + fn.prs[i].deletions
                    /\ fn.prs[i].additions + fn.prs[i].deletions < hi})

\* the number of the call's PRs whose size is at least lo
C18_AtLeast(lo) ==
    Cardinality({i \in 1..Len(fn.prs) : lo <= fn.prs[i].additions + fn.prs[i].deletions})

\* C18: calculateSizeDistribution counts each PR in exactly one bucket by
\* size = additions + deletions: xs if size < 10, s if 10 <= size < 100, m if
\* 100 <= size < 500, l if 500 <= size < 1000, xl if size >= 1000; the five counts
\* sum to the number of PRs.
C18_SizeBuckets ==
    fn.pc = "sizes" /\ fn.returned =>
        /\ fn.result.xs = C18_Between(0, 10)
        /\ fn.result.s = C18_Between(10, 100)
        /\ fn.result.m = C18_Between(100, 500)
        /\ fn.result.l = C18_Between(500, 1000)
        /\ fn.result.xl = C18_AtLeast(1000)
        /\ fn.result.xs + fn.result.s + fn.result.m + fn.result.l + fn.result.xl = Len(fn.prs)

\* C18 witness: PRs of sizes 10 and 1000 have been counted as one s and one xl.
C18_Witness ==
    /\ fn.pc = "sizes"
    /\ fn.returned
    /\ Len(fn.prs) = 2
    /\ fn.prs[1].additions + fn.prs[1].deletions = 10
    /\ fn.prs[2].additions + fn.prs[2].deletions = 1000
    /\ fn.result = [xs |-> 0, s |-> 1, m |-> 0, l |-> 0, xl |-> 1]

(***************************************************************************)
(* SpecDeployments: calculateAllMetrics on documents holding deployments   *)
(* only.                                                                   *)
(***************************************************************************)
MaxDeployments == 3

DeploymentsInit ==
    /\ ini = IniIdle
    /\ gh = GhIdle
    /\ cls = ClsIdle
    /\ det = DetIdle
    /\ lastIndex = 0
    /\ prt = PrtIdle
    /\ cmt = CmtIdle
    /\ ext = ExtIdle
    /\ flt = FltIdle
    /\ fn = FnIdle
    /\ \E dateRange \in DateRanges : \E nd \in 0..MaxDeployments :
       \E deployments \in [1..nd -> DeploymentPool] :
            met = [files   |-> Documents(dateRange, <<>>, <<>>, deployments),
                   docs    |-> Documents(dateRange, <<>>, <<>>, deployments),
                   reports |-> <<>>]

SpecDeployments == DeploymentsInit /\ [][MetricsNext]_vars

\* the deployments of the documents read, and how many of them are in one of states
ReportDeployments == DeploymentsOf(met.files.deploymentData.repositories)
C19_InState(states) ==
    Cardinality({i \in 1..Len(ReportDeployments) : ReportDeployments[i].state \in states})

\* x is the number num / den rounded to the nearest integer, halves upwards (den > 0)
C19_IsRounded(x, num, den) == 2 * (num - x * den) <= den /\ 2 * (x * den - num) < den

\* C19: changeFailureRate.failed is the number of deployments whose state is failure
\* or error, total is the number of all deployments, and percentage is
\* failed/total x 100 rounded to one decimal, or 0 when total is 0; hence
\* 0 <= failed <= total and 0 <= percentage <= 100.  (percentage is kept in tenths.)
C19_ChangeFailureRate ==
    \A r \in 1..Len(met.reports) :
        LET cfr == met.reports[r].dora.changeFailureRate
        IN  /\ cfr.failed = C19_InState({"failure", "error"})
            /\ cfr.total = Len(ReportDeployments)
            /\ cfr.percentage.k = "finite"
            /\ cfr.total = 0 => cfr.percentage.v = 0
            /\ cfr.total > 0 => C19_IsRounded(cfr.percentage.v, cfr.failed * 1000, cfr.total)
            /\ 0 <= cfr.failed /\ cfr.failed <= cfr.total
            /\ 0 <= cfr.percentage.v /\ cfr.percentage.v <= 1000

\* C19 witness: of three deployments one failed and one ended in error: 66.7 percent.
C19_Witness ==
    /\ Len(met.reports) > 0
    /\ Len(ReportDeployments) = 3
    /\ ReportDeployments[1].state = "error"
    /\ ReportDeployments[2].state = "success"
    /\ ReportDeployments[3].state = "failure"
    /\ met.reports[1].dora.changeFailureRate = [percentage |-> Num(667), failed |-> 2, total |-> 3]

\* ceil((end - start) / 1 day) of the documents' date range
C20_RangeDays ==
    CHOOSE d \in 0..366 :
        /\ d * SecondsPerDay >= getTime(met.files.prData.dateRange.end)
                                    - getTime(met.files.prData.dateRange.start)
        /\ (d - 1) * SecondsPerDay < getTime(met.files.prData.dateRange.end)
                                        - getTime(met.files.prData.dateRange.start)

\* C20: deploymentFrequency.perDay is (number of deployments in state success) /
\* rangeDays rounded to two decimals, with rangeDays = ceil((end - start) / 1 day), and
\* perWeek is 7 x the unrounded ratio rounded to two decimals, not 7 x the already
\* rounded perDay.  (Both are kept in hundredths; over a range of 0 days the quotient
\* is the floating-point one: NaN for no successful deployment, else Infinity.)
C20_DeploymentFrequency ==
    \A r \in 1..Len(met.reports) :
        LET df == met.reports[r].dora.deploymentFrequency
        IN  /\ C20_RangeDays > 0 =>
                /\ df.perDay.k = "finite"
                /\ df.perWeek.k = "finite"
                /\ C19_IsRounded(df.perDay.v, C19_InState({"success"}) * 100, C20_RangeDays)
                /\ C19_IsRounded(df.perWeek.v, C19_InState({"success"}) * 700, C20_RangeDays)
            /\ C20_RangeDays = 0 =>
                /\ df.perDay = (IF C19_InState({"success"}) = 0 THEN NaN ELSE Infinity)
                /\ df.perWeek = df.perDay

\* C20 witness: one successful deployment in a range of 7 days: perDay 0.14 and
\* perWeek 1.00, where 7 x 0.14 is 0.98.
C20_Witness ==
    /\ Len(met.reports) > 0
    /\ C20_RangeDays = 7
    /\ C19_InState({"success"}) = 1
    /\ met.reports[1].dora.deploymentFrequency = [perDay |-> Num(14), perWeek |-> Num(100)]

(***************************************************************************)
(* SpecScenario: calculateAllMetrics on the documents of two repositories  *)
(* with three merged pull requests each, ten commits of which three carry  *)
(* a Claude co-author, and five deployments of which one failed, over ten  *)
(* days.  Which commits are the AI-assisted ones and which deployment      *)
(* failed varies.                                                          *)
(***************************************************************************)
ScenarioRange ==
    [start |-> "2024-01-01T00:00:00.000Z", end |-> "2024-01-11T00:00:00.000Z"]

\* six pull requests created 09:00 and merged 13:00
ScenarioPRs ==
    [i \in 1..6 |-> MkPR(i, "merged", "2024-01-01T13:00:00Z", "2024-01-01T13:00:00Z", 20, <<>>)]

\* ten commits by two authors in turn, those at the positions ai tagged with Claude
ScenarioCommits(ai) ==
    [i \in 1..10 |->
        MkCommit(IF i % 2 = 0 THEN "alice" ELSE "bob", "2024-01-02T10:00:00Z",
                 IF i \in ai THEN <<ClaudeCoAuthor>> ELSE <<>>, i \in ai)]

\* five deployments, the one at position failed in state failure
ScenarioDeployments(failed) ==
    [i \in 1..5 |-> MkDeployment(IF i = failed THEN "failure" ELSE "success")]

ScenarioInit ==
    /\ ini = IniIdle
    /\ gh = GhIdle
    /\ cls = ClsIdle
    /\ det = DetIdle
    /\ lastIndex = 0
    /\ prt = PrtIdle
    /\ cmt = CmtIdle
    /\ ext = ExtIdle
    /\ flt = FltIdle
    /\ fn = FnIdle
    /\ \E ai \in {a \in SUBSET (1..10) : Cardinality(a) = 3} : \E failed \in 1..5 :
            met = [files   |-> Documents(ScenarioRange, ScenarioPRs, ScenarioCommits(ai),
                                         ScenarioDeployments(failed)),
                   docs    |-> Documents(ScenarioRange, ScenarioPRs, ScenarioCommits(ai),
                                         ScenarioDeployments(failed)),
                   reports |-> <<>>]

SpecScenario == ScenarioInit /\ [][MetricsNext]_vars

\* C21: given 2 repositories each with 3 merged PRs (createdAt and mergedAt 4 hours
\* apart), 10 commits (3 AI-tagged via Claude, 7 plain) and 5 deployments (1 failure,
\* 4 success) over a 10-day window, the report has deploymentFrequency.perDay = 0.4,
\* changeFailureRate.percentage = 20.0, ai.summary.aiRatio = 0.3 and a single
\* ai.byTool entry for claude with commits = 3.  (perDay and aiRatio are kept in
\* hundredths, percentage in tenths.)
C21_Scenario ==
    \A r \in 1..Len(met.reports) :
        /\ met.reports[r].dora.deploymentFrequency.perDay = Num(40)
        /\ met.reports[r].dora.changeFailureRate.percentage = Num(200)
        /\ met.reports[r].ai.summary.aiRatio = Num(30)
        /\ Len(met.reports[r].ai.byTool) = 1
        /\ met.reports[r].ai.byTool[1].tool = "claude"
        /\ met.reports[r].ai.byTool[1].commits = 3

\* C21 witness: a report of the scenario whose documents hold 3 merged pull requests
\* in each of the two repositories, 10 commits with the first, fifth and tenth tagged,
\* and 5 deployments with the third failed.
C21_Witness ==
    /\ Len(met.reports) > 0
    /\ Len(met.files.prData.repositories) = 2
    /\ \A i \in 1..2 :
        /\ Len(met.files.prData.repositories[i].items) = 3
        /\ \A j \in 1..3 :
            /\ IsMerged(met.files.prData.repositories[i].items[j])
            /\ diffInHours(met.files.prData.repositories[i].items[j].createdAt,
                           met.files.prData.repositories[i].items[j].mergedAt)
                 = 4 * SecondsPerHour
    /\ Len(ReportCommits) = 10
    /\ {i \in 1..10 : ReportCommits[i].isAIAssisted} = {1, 5, 10}
    /\ Len(ReportDeployments) = 5
    /\ ReportDeployments[3].state = "failure"
    /\ met.files.prData.dateRange = ScenarioRange
    /\ met.reports[1].summary.totalPRs = 6
    /\ met.reports[1].dora.leadTimeForChanges.averageHours = Num(40)

(***************************************************************************)
(* SpecFetch: one call of fetchDeployments on what the host lists.         *)
(***************************************************************************)
MaxFetched == 2

\* raw states in several letter cases, an unknown one, and a name that every object
\* literal inherits
RawStates ==
    {"success", "FAILURE", "Error", "pending", "in_progress", "queued", "inactive",
     "deployed", "constructor"}

\* created inside and before the date range
RawCreationTimes == {"2024-01-05T12:00:00Z", "2023-12-25T12:00:00Z"}

FetchInit ==
    /\ ini = IniIdle
    /\ gh = GhIdle
    /\ cls = ClsIdle
    /\ det = DetIdle
    /\ lastIndex = 0
    /\ prt = PrtIdle
    /\ cmt = CmtIdle
    /\ met = MetIdle
    /\ ext = ExtIdle
    /\ flt = FltIdle
    /\ \E n \in 0..MaxFetched : \E st \in [1..n -> RawStates] :
       \E at \in [1..n -> RawCreationTimes] : \E ok \in BOOLEAN :
        /\ (~ok => n = 0)
        /\ fn = [pc |-> "deployments",
                 raw |-> (IF ok THEN Ok([i \in 1..n |-> MkRawDeployment(i, st[i], at[i])])
                          ELSE Fail),
                 since |-> daysAgo(ExtractDays, ExtractNow), until |-> ExtractNow,
                 result |-> <<>>, returned |-> FALSE]

FetchDeployments ==
    /\ fn.pc = "deployments"
    /\ ~fn.returned
    /\ fn' = [fn EXCEPT !.result = fetchDeployments(fn.raw, fn.since, fn.until),
                        !.returned = TRUE]
    /\ UNCHANGED <<cls, det, lastIndex, prt, cmt, met, ext, flt, gh, ini>>

FetchNext == FetchDeployments

SpecFetch == FetchInit /\ [][FetchNext]_vars

\* the seven states of the Deployment type
C22_Recognised ==
    {"success", "failure", "error", "pending", "in_progress", "queued", "inactive"}

\* the raw deployments of the call that were created within its date range
C22_InRange ==
    SelectSeq(fn.raw.items, LAMBDA raw : /\ getTime(fn.since) <= getTime(raw.created_at)
                                         /\ getTime(raw.created_at) <= getTime(fn.until))

\* C22: normalizeDeploymentState maps each of the seven recognised states (compared
\* case-insensitively) to itself and every other raw state to 'pending', and
\* fetchDeployments never drops a deployment because of its state: the number of
\* deployments it returns equals the number of raw deployments whose creation time
\* lies in the date range.
C22_StatesNormalized ==
    fn.pc = "deployments" /\ fn.returned /\ fn.raw.ok =>
        /\ Len(fn.result) = Len(C22_InRange)
        /\ \A i \in 1..Len(fn.result) :
            fn.result[i].state =
                (IF toLowerCase(C22_InRange[i].state) \in C22_Recognised
                 THEN toLowerCase(C22_InRange[i].state)
                 ELSE "pending")

(***************************************************************************)
(* SpecFormat: one call of formatDuration on a number of hours with one    *)
(* decimal, as calculateAllMetrics passes it.                              *)
(***************************************************************************)
MaxTenths == 2000

FormatInit ==
    /\ ini = IniIdle
    /\ gh = GhIdle
    /\ cls = ClsIdle
    /\ det = DetIdle
    /\ lastIndex = 0
    /\ prt = PrtIdle
    /\ cmt = CmtIdle
    /\ met = MetIdle
    /\ ext = ExtIdle
    /\ flt = FltIdle
    /\ \E t \in 0..MaxTenths : fn = [pc |-> "format", hours |-> t, result |-> "", returned |-> FALSE]

FormatDuration ==
    /\ fn.pc = "format"
    /\ ~fn.returned
    /\ fn' = [fn EXCEPT !.result = formatDuration(fn.hours), !.returned = TRUE]
    /\ UNCHANGED <<cls, det, lastIndex, prt, cmt, met, ext, flt, gh, ini>>

FormatNext == FormatDuration

SpecFormat == FormatInit /\ [][FormatNext]_vars

\* n is num / den to the nearest integer, either way on a half
C23_Nearest(n, num, den) == 2 * (num - n * den) <= den /\ 2 * (n * den - num) <= den

\* text is the number num / den with one decimal, followed by unit (num in tenths)
C23_OneDecimal(text, num, den, unit) ==
    \E n \in {num \div den, (num \div den) + 1} :
        /\ C23_Nearest(n, num, den)
        /\ text = IntToStr(n \div 10) \o "." \o IntToStr(n % 10) \o unit

\* C23: formatDuration(h) chooses its unit by range: minutes, as round(60 h) followed
\* by 'm', when h < 1; hours with one decimal when 1 <= h < 24; days (h/24) with one
\* decimal when 24 <= h < 168; weeks (h/168) with one decimal when h >= 168; each
\* boundary value 1, 24 and 168 belongs to the larger unit.  (h is kept in tenths.)
C23_UnitByRange ==
    fn.pc = "format" /\ fn.returned =>
        /\ fn.hours < 10 =>
            \E m \in {(6 * fn.hours) - 1, 6 * fn.hours, (6 * fn.hours) + 1} :
                /\ m >= 0
                /\ C23_Nearest(m, 60 * fn.hours, 10)
                /\ fn.result = IntToStr(m) \o "m"
        /\ 10 <= fn.hours /\ fn.hours < 240 => C23_OneDecimal(fn.result, fn.hours, 1, "h")
        /\ 240 <= fn.hours /\ fn.hours < 1680 => C23_OneDecimal(fn.result, fn.hours, 24, "d")
        /\ 1680 <= fn.hours => C23_OneDecimal(fn.result, fn.hours, 168, "w")

\* C23 witness: formatDuration(168) has returned "1.0w".
C23_Witness ==
    /\ fn.pc = "format"
    /\ fn.returned
    /\ fn.hours = 1680
    /\ fn.result = "1.0w"

(***************************************************************************)
(* github.ts: execGh.  SpecGh is one call of it, every attempt getting     *)
(* from the gh process either its output or an error.                      *)
(***************************************************************************)
MAX_RETRIES == 3
RETRY_DELAY_MS == 1000

\* String.prototype.includes
StringIncludes(s, part) ==
    \E i \in 1..(Len(s) - Len(part) + 1) : SubSeq(s, i, i + Len(part) - 1) = part

\* line 73
IsRateLimitError(message) == StringIncludes(message, "rate limit") \/ StringIncludes(message, "403")

\* line 80
IsNetworkError(message) == StringIncludes(message, "ETIMEDOUT") \/ StringIncludes(message, "ECONNRESET")

\* what awaiting execFileAsync('gh', args) may give: stdout, or an error with a message
GhOutcomes ==
    { [ok |-> TRUE,  text |-> "[]"],
      [ok |-> FALSE, text |-> "API rate limit exceeded"],
      [ok |-> FALSE, text |-> "HTTP 403: Forbidden"],
      [ok |-> FALSE, text |-> "connect ETIMEDOUT 140.82.112.6:443"],
      [ok |-> FALSE, text |-> "read ECONNRESET"],
      [ok |-> FALSE, text |-> "HTTP 404: Not Found"],
      [ok |-> FALSE, text |-> ""] }

\* lines 58-59: lastError = null, attempt = 1
GhInit ==
    /\ ini = IniIdle
    /\ cls = ClsIdle
    /\ det = DetIdle
    /\ lastIndex = 0
    /\ prt = PrtIdle
    /\ cmt = CmtIdle
    /\ met = MetIdle
    /\ ext = ExtIdle
    /\ flt = FltIdle
    /\ fn = FnIdle
    /\ gh = [pc |-> "attempt", attempt |-> 1, lastError |-> <<>>, waits |-> <<>>,
             log |-> <<>>, result |-> ""]

\* line 75
RateLimitWait(attempt) == RETRY_DELAY_MS * attempt * 2

\* line 82
NetworkWait(attempt) == RETRY_DELAY_MS * attempt

\* The test of lines 73 and 80, were every error retried.
RetryableAlways(message) == TRUE

\* lines 73, 80: the errors after which execGh sleeps and continues
Retryable(message) == IsRateLimitError(message) \/ IsNetworkError(message)

\* lines 61-87: one turn of the loop up to its return, its throw or its sleep
GhAttempt ==
    /\ gh.pc = "attempt"
    /\ \E o \in GhOutcomes :
        IF o.ok
        THEN gh' = [gh EXCEPT !.pc = "returned", !.result = o.text, !.log = Append(@, o)]
        ELSE IF Retryable(o.text)
        THEN gh' = [gh EXCEPT !.pc = "sleeping", !.lastError = <<o.text>>,
                              !.log = Append(@, o),
                              !.waits = Append(@, IF IsRateLimitError(o.text)
                                                  THEN RateLimitWait(gh.attempt)
                                                  ELSE NetworkWait(gh.attempt))]
        ELSE gh' = [gh EXCEPT !.pc = "thrown", !.lastError = <<o.text>>,
                              !.log = Append(@, o), !.result = o.text]
    /\ UNCHANGED <<cls, det, lastIndex, prt, cmt, met, ext, flt, fn, ini>>

\* lines 76, 83: the sleep ends and the loop continues: attempt++, then the test of
\* line 60, and line 91 once the loop is left
GhWake ==
    /\ gh.pc = "sleeping"
    /\ IF gh.attempt + 1 <= MAX_RETRIES
       THEN gh' = [gh EXCEPT !.pc = "attempt", !.attempt = @ + 1]
       ELSE gh' = [gh EXCEPT !.pc = "thrown", !.attempt = @ + 1, !.result = gh.lastError[1]]
    /\ UNCHANGED <<cls, det, lastIndex, prt, cmt, met, ext, flt, fn, ini>>

GhNext == GhAttempt \/ GhWake

SpecGh == GhInit /\ [][GhNext]_vars

\* a sleep ends and a gh process exits or fails in finite time
SpecGhFair == SpecGh /\ WF_vars(GhNext)

\* C24: when execGh retries after rate-limit errors, the wait before each retry grows
\* exponentially: every wait is at least twice the wait that preceded it.
C24_WaitsDouble ==
    (\A i \in 1..Len(gh.log) : IsRateLimitError(gh.log[i].text)) =>
        \A i \in 2..Len(gh.waits) : gh.waits[i] >= 2 * gh.waits[i - 1]

(***************************************************************************)
(* init.ts, config.ts: velocity init [--force] on a directory whose        *)
(* velocity.config.json is absent or holds some configuration.  SpecInit   *)
(* runs the command up to MaxInits times; between runs the user may edit   *)
(* or remove the file.                                                     *)
(***************************************************************************)
MaxInits == 2

\* config.ts lines 59-70
defaultConfig ==
    [repositories |-> <<>>,
     teams        |-> <<>>,
     settings     |-> [defaultDateRange |-> 30, deploymentBranch |-> "main",
                       excludeAuthors |-> <<"dependabot[bot]", "renovate[bot]",
                                            "github-actions[bot]">>,
                       excludeLabels |-> <<>>, excludeDraftPRs |-> TRUE]]

NoFile == [exists |-> FALSE, config |-> defaultConfig]
FileOf(config) == [exists |-> TRUE, config |-> config]

\* configurations a user may have written
UserConfigs ==
    { [defaultConfig EXCEPT !.repositories = <<"o/a">>],
      [defaultConfig EXCEPT !.repositories = <<"o/a", "o/b">>,
                            !.settings.deploymentBranch = "release"],
      [defaultConfig EXCEPT !.settings.excludeAuthors = <<>>],
      defaultConfig }

InitInit ==
    /\ cls = ClsIdle
    /\ det = DetIdle
    /\ lastIndex = 0
    /\ prt = PrtIdle
    /\ cmt = CmtIdle
    /\ met = MetIdle
    /\ ext = ExtIdle
    /\ flt = FltIdle
    /\ fn = FnIdle
    /\ gh = GhIdle
    /\ \E file \in {NoFile} \cup {FileOf(c) : c \in UserConfigs} :
        ini = [pc |-> "shell", file |-> file, runs |-> 0,
               last |-> [force |-> FALSE, before |-> file, after |-> file, outcome |-> "none"]]

\* The test of init.ts lines 14-15, were --force not to be looked at.
ReturnsEarlyIgnoringForce(exists, force) == exists

\* init.ts lines 14-21: the command returns without writing
ReturnsEarly(exists, force) == exists /\ ~force

\* config.ts line 98: writeFile(filePath, JSON.stringify(defaultConfig, null, 2) + '\n')
createConfig(file, written) == IF written THEN FileOf(defaultConfig) ELSE file

\* initCommand(options): written tells whether writeFile succeeds; when it rejects,
\* the catch of lines 48-56 exits with code 1
InitCommand ==
    /\ ini.pc = "shell"
    /\ ini.runs < MaxInits
    /\ \E force \in BOOLEAN, written \in BOOLEAN :
        ini' = [ini EXCEPT
                  !.runs = @ + 1,
                  !.file = IF ReturnsEarly(ini.file.exists, force) THEN ini.file
                           ELSE createConfig(ini.file, written),
                  !.last = [force   |-> force,
                            before  |-> ini.file,
                            after   |-> IF ReturnsEarly(ini.file.exists, force) THEN ini.file
                                        ELSE createConfig(ini.file, written),
                            outcome |-> IF ReturnsEarly(ini.file.exists, force) THEN "kept"
                                        ELSE IF written THEN "created" ELSE "exit 1"]]
    /\ UNCHANGED <<cls, det, lastIndex, prt, cmt, met, ext, flt, fn, gh>>

\* the user edits or removes velocity.config.json
EditConfig ==
    /\ ini.pc = "shell"
    /\ \E file \in {NoFile} \cup {FileOf(c) : c \in UserConfigs} :
        /\ file # ini.file
        /\ ini' = [ini EXCEPT !.file = file]
    /\ UNCHANGED <<cls, det, lastIndex, prt, cmt, met, ext, flt, fn, gh>>

InitNext == InitCommand \/ EditConfig

SpecInit == InitInit /\ [][InitNext]_vars

\* C25: initCommand leaves an existing velocity.config.json unchanged unless --force
\* is given; when no configuration file exists, or --force is given, it writes the
\* default configuration (the file then holds it, unless the write itself failed and
\* the command exited with code 1, the file being as before).
C25_ForceOrAbsent ==
    ini.pc = "shell" /\ ini.runs > 0 =>
        /\ ini.last.before.exists /\ ~ini.last.force =>
            /\ ini.last.outcome = "kept"
            /\ ini.last.after = ini.last.before
        /\ ~ini.last.before.exists \/ ini.last.force =>
            /\ ini.last.outcome \in {"created", "exit 1"}
            /\ ini.last.outcome = "created" => ini.last.after = FileOf(defaultConfig)
            /\ ini.last.outcome = "exit 1" => ini.last.after = ini.last.before

\* C25 witness: velocity init --force has replaced a user's configuration by the
\* default one.
C25_Witness ==
    /\ ini.pc = "shell"
    /\ ini.runs > 0
    /\ ini.last.force
    /\ ini.last.before.exists
    /\ ini.last.before.config.repositories = <<"o/a">>
    /\ ini.last.outcome = "created"
    /\ ini.last.after = FileOf(defaultConfig)

\* the call of execGh is over
C26_Done == gh.pc \in {"returned", "thrown"}

\* the attempts made so far, and whether the i-th failed with an error that is retried
C26_Attempts == Len(gh.log)
C26_Retried(i) ==
    /\ ~gh.log[i].ok
    /\ \/ StringIncludes(gh.log[i].text, "rate limit")
       \/ StringIncludes(gh.log[i].text, "403")
       \/ StringIncludes(gh.log[i].text, "ETIMEDOUT")
       \/ StringIncludes(gh.log[i].text, "ECONNRESET")

C26_Safe ==
    gh.pc # "idle" =>
        /\ C26_Attempts <= MAX_RETRIES
        /\ \A i \in 1..(C26_Attempts - 1) : C26_Retried(i)
        /\ gh.pc = "attempt" => \A i \in 1..C26_Attempts : C26_Retried(i)
        /\ gh.pc = "sleeping" => C26_Retried(C26_Attempts)
        /\ gh.pc = "returned" =>
            /\ gh.log[C26_Attempts].ok
            /\ gh.result = gh.log[C26_Attempts].text
        /\ gh.pc = "thrown" =>
            /\ ~gh.log[C26_Attempts].ok
            /\ gh.result = gh.log[C26_Attempts].text
            /\ ~C26_Retried(C26_Attempts) \/ C26_Attempts = MAX_RETRIES
        /\ \A i \in 1..C26_Attempts :
            (gh.log[i].ok \/ ~C26_Retried(i)) => i = C26_Attempts /\ C26_Done

\* C26: execGh makes at most 3 attempts and always terminates: it returns the output
\* of the first attempt that succeeds, rethrows a non-retryable error at once without
\* any further attempt, retries only after rate-limit errors (message contains
\* 'rate limit' or '403') and network errors (ETIMEDOUT, ECONNRESET), and after a
\* third failed attempt throws the error of that last attempt.
C26_AtMostThreeAttempts == []C26_Safe /\ <>C26_Done

\* C26 witness: three attempts have failed, with a rate-limit, a network and again a
\* rate-limit error, and execGh has thrown the last of them.
C26_Witness ==
    /\ gh.pc = "thrown"
    /\ Len(gh.log) = 3
    /\ gh.log[1].text = "API rate limit exceeded"
    /\ gh.log[2].text = "connect ETIMEDOUT 140.82.112.6:443"
    /\ gh.log[3].text = "HTTP 403: Forbidden"
    /\ gh.result = "HTTP 403: Forbidden"
    /\ gh.waits = <<2000, 2000, 6000>>

\* the keys of a document's repositories map
C27_Keys(document) == {document.repositories[i].repo : i \in 1..Len(document.repositories)}

\* the repositories of the run whose access check passed
C27_Passed == {ext.repos[i] : i \in {j \in 1..Len(ext.repos) : ext.host[j].accessible}}

\* C27: when extractCommand writes its output, the repositories maps of prs.json,
\* commits.json and deployments.json have the same key set, namely the repositories
\* that passed the access check; repositories that failed the check are skipped while
\* the others are still extracted, and the run aborts without writing any file only
\* when no repository is accessible.
C27_SameKeys ==
    /\ ext.pc = "done" =>
        /\ Len(ext.files) = 1
        /\ C27_Keys(ext.files[1].prData) = C27_Passed
        /\ C27_Keys(ext.files[1].commitData) = C27_Passed
        /\ C27_Keys(ext.files[1].deploymentData) = C27_Passed
        /\ Len(ext.files[1].prData.repositories) = Cardinality(C27_Passed)
        /\ Len(ext.files[1].commitData.repositories) = Cardinality(C27_Passed)
        /\ Len(ext.files[1].deploymentData.repositories) = Cardinality(C27_Passed)
    /\ ext.pc = "exit1" => C27_Passed = {} /\ ext.files = <<>>
    /\ ext.pc \in {"extract", "done"} => C27_Passed # {}
    /\ ext.pc \in {"start", "extract"} => ext.files = <<>>

\* C27 witness: of two repositories the first failed the access check; the three
\* files are written with the second as their only key.
C27_Witness ==
    /\ ext.pc = "done"
    /\ Len(ext.repos) = 2
    /\ ~ext.host[1].accessible
    /\ ext.host[2].accessible
    /\ C27_Keys(ext.files[1].prData) = {ext.repos[2]}
    /\ C27_Keys(ext.files[1].commitData) = {ext.repos[2]}
    /\ C27_Keys(ext.files[1].deploymentData) = {ext.repos[2]}

\* the authors of the commits read that have an AI-assisted commit
C28_AIAuthors ==
    {ReportCommits[i].author : i \in {j \in 1..Len(ReportCommits) : ReportCommits[j].isAIAssisted}}

\* C28: ai.byUser contains exactly the authors that have at least one AI-assisted
\* commit, each once: its length equals ai.summary.usersWithAI, every entry has
\* 1 <= aiCommits <= totalCommits, the aiCommits of all entries sum to
\* ai.summary.totalAICommits, and usersWithAI <= totalUsers.
C28_ByUser ==
    \A r \in 1..Len(met.reports) :
        LET byUser  == met.reports[r].ai.byUser
            summary == met.reports[r].ai.summary
        IN  /\ {byUser[i].author : i \in 1..Len(byUser)} = C28_AIAuthors
            /\ Len(byUser) = Cardinality(C28_AIAuthors)
            /\ Len(byUser) = summary.usersWithAI
            /\ \A i \in 1..Len(byUser) :
                /\ 1 <= byUser[i].aiCommits
                /\ byUser[i].aiCommits <= byUser[i].totalCommits
            /\ SumSeq([i \in 1..Len(byUser) |-> byUser[i].aiCommits]) = summary.totalAICommits
            /\ summary.usersWithAI <= summary.totalUsers

\* C28 witness: of two authors with one commit each only the second has an
\* AI-assisted one, and byUser holds that author alone.
C28_Witness ==
    /\ Len(met.reports) > 0
    /\ Len(ReportCommits) = 2
    /\ ReportCommits[1].author = "alice" /\ ~ReportCommits[1].isAIAssisted
    /\ ReportCommits[2].author = "bob" /\ ReportCommits[2].isAIAssisted
    /\ Len(met.reports[1].ai.byUser) = 1
    /\ met.reports[1].ai.byUser[1].author = "bob"
    /\ met.reports[1].ai.summary.usersWithAI = 1
    /\ met.reports[1].ai.summary.totalUsers = 2

\* C29: the result of detectAICoAuthors(m) does not depend on earlier calls: although
\* every call shares one module-level regular expression with the global flag, its
\* scan position is back at the start whenever a call returns, so in any sequence of
\* calls each message gets the same result a first call would give it.
C29_NoCarryOver ==
    /\ lastIndex = 0
    /\ det.calls > 0 => det.coAuthors = detectAICoAuthors(det.message, 0).coAuthors

\* C29 witness: a second call, on a message of two Co-Authored-By lines, has returned
\* both co-authors.
C29_Witness ==
    /\ det.calls = 2
    /\ lastIndex = 0
    /\ det.message = Lines[2] \o "\n" \o Lines[7]
    /\ Len(det.coAuthors) = 2

(***************************************************************************)
(* config.ts getSettings, github.ts getDefaultBranch and the branch that   *)
(* extractCommand passes to extractCommits.  A setting the configuration   *)
(* leaves out is <<>>, one it gives is <<value>>.  SpecBranch is the       *)
(* commits step of one repository.                                         *)
(***************************************************************************)
OrDefault(setting, default) == IF setting = <<>> THEN default ELSE setting[1]

NoSettings ==
    [defaultDateRange |-> <<>>, deploymentBranch |-> <<>>, excludeAuthors |-> <<>>,
     excludeLabels |-> <<>>, excludeDraftPRs |-> <<>>]

\* config.ts lines 106-114
getSettings(config) ==
    [defaultDateRange |-> OrDefault(OrDefault(config.settings, NoSettings).defaultDateRange, 30),
     deploymentBranch |-> OrDefault(OrDefault(config.settings, NoSettings).deploymentBranch, "main"),
     excludeAuthors   |-> OrDefault(OrDefault(config.settings, NoSettings).excludeAuthors, <<>>),
     excludeLabels    |-> OrDefault(OrDefault(config.settings, NoSettings).excludeLabels, <<>>),
     excludeDraftPRs  |-> OrDefault(OrDefault(config.settings, NoSettings).excludeDraftPRs, TRUE)]

\* github.ts lines 197-206: response is what gh repo view --json defaultBranchRef
\* gave, the name of the branch, "" for none, or Fail
getDefaultBranch(response) ==
    IF ~response.ok THEN "main"
    ELSE IF response.items = "" THEN "main"
    ELSE response.items

\* extract.ts line 155
CommitsBranch(settings, defaultBranch) ==
    IF settings.deploymentBranch = "main" THEN defaultBranch ELSE settings.deploymentBranch

\* configurations: no settings at all, settings without deploymentBranch, and settings
\* naming a branch
BranchConfigs ==
    {[repositories |-> <<"o/a">>, settings |-> <<>>]}
    \cup {[repositories |-> <<"o/a">>,
           settings |-> <<[NoSettings EXCEPT !.deploymentBranch = b, !.excludeDraftPRs = d,
                                             !.defaultDateRange = r]>>] :
            b \in {<<>>, <<"main">>, <<"master">>, <<"develop">>, <<"release">>},
            d \in {<<>>, <<FALSE>>}, r \in {<<>>, <<60>>}}

\* what the host says the repository's default branch is
DefaultBranchResponses == {Fail, Ok(""), Ok("main"), Ok("master"), Ok("develop")}

BranchInit ==
    /\ cls = ClsIdle
    /\ det = DetIdle
    /\ lastIndex = 0
    /\ prt = PrtIdle
    /\ cmt = CmtIdle
    /\ met = MetIdle
    /\ ext = ExtIdle
    /\ flt = FltIdle
    /\ gh = GhIdle
    /\ ini = IniIdle
    /\ \E config \in BranchConfigs, response \in DefaultBranchResponses :
        fn = [pc |-> "commits", config |-> config, response |-> response,
              settings |-> getSettings(config), branch |-> "", returned |-> FALSE]

\* extract.ts lines 153-161: the branch option of the extractCommits call
FetchCommits ==
    /\ fn.pc = "commits"
    /\ ~fn.returned
    /\ fn' = [fn EXCEPT !.branch = CommitsBranch(fn.settings, getDefaultBranch(fn.response)),
                        !.returned = TRUE]
    /\ UNCHANGED <<cls, det, lastIndex, prt, cmt, met, ext, flt, gh, ini>>

BranchNext == FetchCommits

SpecBranch == BranchInit /\ [][BranchNext]_vars

\* the deploymentBranch the configuration of the call sets: <<>> when it sets none
C30_Configured ==
    IF fn.config.settings = <<>> THEN <<>> ELSE fn.config.settings[1].deploymentBranch

\* C30: extractCommand extracts a repository's commits from the branch named by
\* settings.deploymentBranch whenever the configuration sets that setting, whatever
\* its value, and uses the repository's default branch only when the configuration
\* leaves deploymentBranch unset.
C30_ConfiguredBranchUsed ==
    fn.pc = "commits" /\ fn.returned =>
        /\ C30_Configured # <<>> => fn.branch = C30_Configured[1]
        /\ C30_Configured = <<>> => fn.branch = getDefaultBranch(fn.response)

====
